---- MODULE Spec2Model ----
(***************************************************************************)
(* NyanTest4SQL (src/main.go): the template renderer renderNyanSQL, the    *)
(* condition evaluator evalCondFlexible and the comparison helpers         *)
(* normalizeForCompare / equalSQL.                                         *)
(*                                                                         *)
(* A Go string is modelled as a sequence of one-character strings, so that *)
(* the byte-wise scans and the regular expressions of the source can be    *)
(* followed position by position.                                          *)
(***************************************************************************)
EXTENDS Integers, Sequences, FiniteSets, TLC

VARIABLES
    parts,      \* the pieces the template text was put together from
    tpl,        \* renderNyanSQL: its argument tpl
    params,     \* renderNyanSQL / evalCondFlexible: the params map
    pc,         \* position of the call under way
    sqlText,    \* renderNyanSQL: its local sqlText
    stages,     \* the values sqlText had after each step of renderNyanSQL
    cmpA,       \* equalSQL: argument a
    cmpB,       \* equalSQL: argument b
    cmpRes,     \* equalSQL: its result
    flags,      \* the command-line flags, and the driver name
    fs,         \* the files the call under way reads and writes: name -> content
    db,         \* execOnDBTx: connection, transaction, statements executed
    err,        \* runOne: the error it returns (its message), <<>> for nil
    verdict,    \* main: what classifyErr makes of err
    log,        \* runOne: the steps it has taken
    defs,       \* extractParamDefaults: its result
    keys,       \* findTruthyKeysForVariants: its result
    first,      \* renderNyanSQL: what an earlier call on the same input gave
    fs0,        \* the files as they were before the command began
    todo        \* genSQLCmd: the tests that are still to be written

\* the variables a call of renderNyanSQL or equalSQL alone does not touch
idleVars == <<flags, fs, db, err, verdict, log, defs, keys, first, fs0, todo>>

vars == <<parts, tpl, params, pc, sqlText, stages, cmpA, cmpB, cmpRes, idleVars>>

NoError == [set |-> FALSE, msg |-> <<>>]

\* nothing of the runner, of the generator or of the inference is under way
IdleRun ==
    /\ flags = <<>>
    /\ fs = <<>>
    /\ db = <<>>
    /\ err = NoError
    /\ verdict = ""
    /\ log = <<>>
IdleInfer == defs = <<>> /\ keys = <<>>
IdleGen == fs0 = <<>> /\ todo = <<>>
Idle == IdleRun /\ IdleInfer /\ IdleGen /\ first = <<>>

(***************************************************************************)
(* Bounds of the model.                                                    *)
(***************************************************************************)
MaxCmpLen == 3

(***************************************************************************)
(* Characters.                                                             *)
(***************************************************************************)
LOWER == <<"a","b","c","d","e","f","g","h","i","j","k","l","m",
           "n","o","p","q","r","s","t","u","v","w","x","y","z">>
UPPER == <<"A","B","C","D","E","F","G","H","I","J","K","L","M",
           "N","O","P","Q","R","S","T","U","V","W","X","Y","Z">>
DIGITS == <<"0","1","2","3","4","5","6","7","8","9">>

Range(f) == {f[i] : i \in DOMAIN f}
Min(S) == CHOOSE x \in S : \A y \in S : x <= y
Max(S) == CHOOSE x \in S : \A y \in S : x >= y

IsLower(c) == c \in Range(LOWER)
IsUpper(c) == c \in Range(UPPER)
IsDigit(c) == c \in Range(DIGITS)
LetterIndex(c, abc) == CHOOSE i \in DOMAIN abc : abc[i] = c

\* unicode.IsSpace / regexp \s, on the characters the model uses
IsSpace(c) == c \in {" ", "\t", "\n", "\r"}

\* [A-Za-z0-9_]
IsWordChar(c) == IsLower(c) \/ IsUpper(c) \/ IsDigit(c) \/ c = "_"

ToUpperCh(c) == IF IsLower(c) THEN UPPER[LetterIndex(c, LOWER)] ELSE c
ToLowerCh(c) == IF IsUpper(c) THEN LOWER[LetterIndex(c, UPPER)] ELSE c

ToUpper(s) == [i \in 1..Len(s) |-> ToUpperCh(s[i])]

(***************************************************************************)
(* package strings                                                         *)
(***************************************************************************)
\* strings.HasPrefix(s[i-1:], p), positions counted from 1
HasPrefixAt(s, i, p) ==
    /\ i >= 1
    /\ i + Len(p) - 1 <= Len(s)
    /\ \A k \in 1..Len(p) : s[i + k - 1] = p[k]

\* the same under the (?i) flag of the regular expressions
HasPrefixFoldAt(s, i, p) ==
    /\ i >= 1
    /\ i + Len(p) - 1 <= Len(s)
    /\ \A k \in 1..Len(p) : ToUpperCh(s[i + k - 1]) = ToUpperCh(p[k])

HasPrefix(s, p) == HasPrefixAt(s, 1, p)
HasSuffix(s, p) == Len(p) <= Len(s) /\ HasPrefixAt(s, Len(s) - Len(p) + 1, p)
EqualFold(s, t) == Len(s) = Len(t) /\ HasPrefixFoldAt(s, 1, t)

\* position of the first occurrence of p in s at or after i; 0 when there is none
IndexFrom(s, i, p) ==
    LET J == {j \in i..Len(s) : HasPrefixAt(s, j, p)}
    IN  IF J = {} THEN 0 ELSE Min(J)

Contains(s, p) == IndexFrom(s, 1, p) # 0
ContainsAny(s, chars) == \E i \in 1..Len(s) : s[i] \in chars

TrimSpace(s) ==
    LET K == {i \in 1..Len(s) : ~IsSpace(s[i])}
    IN  IF K = {} THEN <<>> ELSE SubSeq(s, Min(K), Max(K))

RECURSIVE ReplaceFrom(_, _, _, _)
ReplaceFrom(s, i, old, new) ==
    IF i > Len(s) THEN <<>>
    ELSE IF HasPrefixAt(s, i, old)
         THEN new \o ReplaceFrom(s, i + Len(old), old, new)
         ELSE <<s[i]>> \o ReplaceFrom(s, i + 1, old, new)

\* strings.ReplaceAll for a non-empty old
ReplaceAll(s, old, new) == ReplaceFrom(s, 1, old, new)

RECURSIVE SplitFrom(_, _, _)
SplitFrom(s, i, sep) ==
    LET j == IndexFrom(s, i, sep)
    IN  IF j = 0 THEN <<SubSeq(s, i, Len(s))>>
        ELSE <<SubSeq(s, i, j - 1)>> \o SplitFrom(s, j + Len(sep), sep)

\* strings.Split for a non-empty sep
Split(s, sep) == SplitFrom(s, 1, sep)

RECURSIVE Join(_, _)
Join(elems, sep) ==
    IF Len(elems) = 0 THEN <<>>
    ELSE IF Len(elems) = 1 THEN elems[1]
    ELSE elems[1] \o sep \o Join(Tail(elems), sep)

\* end of the run of white space that starts at i (i - 1 when s[i] is none)
SpaceRunEnd(s, i) ==
    LET K == {j \in i..Len(s) : ~IsSpace(s[j])}
    IN  IF K = {} THEN Len(s) ELSE Min(K) - 1

\* end of the run of non-space characters that starts at i
WordRunEnd(s, i) ==
    LET K == {j \in i..Len(s) : IsSpace(s[j])}
    IN  IF K = {} THEN Len(s) ELSE Min(K) - 1

RECURSIVE FieldsFrom(_, _)
FieldsFrom(s, i) ==
    IF i > Len(s) THEN <<>>
    ELSE IF IsSpace(s[i]) THEN FieldsFrom(s, SpaceRunEnd(s, i) + 1)
    ELSE <<SubSeq(s, i, WordRunEnd(s, i))>> \o FieldsFrom(s, WordRunEnd(s, i) + 1)

\* strings.Fields
Fields(s) == FieldsFrom(s, 1)

(***************************************************************************)
(* Misc (shared): stripComments, normalizeWhitespace                       *)
(***************************************************************************)
RECURSIVE stripFrom(_, _)
stripFrom(s, i) ==
    IF i > Len(s) THEN <<>>
    ELSE IF HasPrefixAt(s, i, <<"/", "*">>)
         THEN LET j == IndexFrom(s, i + 2, <<"*", "/">>)
              IN  IF j = 0 THEN <<>> ELSE stripFrom(s, j + 2)
    ELSE IF HasPrefixAt(s, i, <<"-", "-">>)
         THEN LET j == IndexFrom(s, i, <<"\n">>)
              IN  IF j = 0 THEN <<>> ELSE stripFrom(s, j + 1)
    ELSE <<s[i]>> \o stripFrom(s, i + 1)

stripComments(s) == stripFrom(s, 1)

RECURSIVE dropBlankRuns(_, _)
dropBlankRuns(lines, buf) ==
    IF Len(lines) = 0 THEN buf
    ELSE IF Head(lines) = <<>> /\ Len(buf) > 0 /\ buf[Len(buf)] = <<>>
         THEN dropBlankRuns(Tail(lines), buf)
         ELSE dropBlankRuns(Tail(lines), Append(buf, Head(lines)))

normalizeWhitespace(s) ==
    LET raw   == Split(s, <<"\n">>)
        lines == [i \in 1..Len(raw) |-> Join(Fields(raw[i]), <<" ">>)]
    IN  TrimSpace(Join(dropBlankRuns(lines, <<>>), <<"\n">>))

(***************************************************************************)
(* Comparison Helpers (Runner)                                             *)
(***************************************************************************)
RECURSIVE collapseFrom(_, _)
collapseFrom(s, i) ==
    IF i > Len(s) THEN <<>>
    ELSE IF IsSpace(s[i]) THEN <<" ">> \o collapseFrom(s, SpaceRunEnd(s, i) + 1)
    ELSE <<s[i]>> \o collapseFrom(s, i + 1)

\* a faulty collapseSpace: the white-space runs are left as they are
keepSpace(s) == s

\* regexp `\s+` ReplaceAllString(s, " ")
collapseSpace(s) == collapseFrom(s, 1)

normalizeForCompare(s) ==
    LET s1 == stripComments(s)
        s2 == collapseSpace(s1)
        s3 == ReplaceAll(s2, <<"(", " ">>, <<"(">>)
        s4 == ReplaceAll(s3, <<" ", ")">>, <<")">>)
        s5 == ReplaceAll(s4, <<" ", ",">>, <<",">>)
        s6 == ReplaceAll(s5, <<" ", ";">>, <<";">>)
    IN  TrimSpace(s6)

equalSQL(a, b) == normalizeForCompare(a) = normalizeForCompare(b)

(***************************************************************************)
(* Values of the params map (the decoded JSON held in map[string]any) and  *)
(* the values evalCondFlexible and extractParamDefaults build.             *)
(*   t = "nil"      the nil interface (JSON null, or a missing key)        *)
(*   t = "bool"     b                                                      *)
(*   t = "string"   s                                                      *)
(*   t = "number"   json.Number, s is its text                             *)
(*   t = "int64"    k = "fin", value (-1)^neg * mant                       *)
(*   t = "float64"  k = "fin": value (-1)^neg * mant / 10^exp;             *)
(*                  k = "inf": +Inf or -Inf by neg; k = "nan": NaN         *)
(*   t = "array"    a []any, s is its text (fmt %v and json.Marshal agree  *)
(*                  on the arrays the model uses)                          *)
(***************************************************************************)
Val(t, b, s, k, neg, mant, exp) ==
    [t |-> t, b |-> b, s |-> s, k |-> k, neg |-> neg, mant |-> mant, exp |-> exp]

Nil        == Val("nil", FALSE, <<>>, "fin", FALSE, 0, 0)
Bool(b)    == Val("bool", b, <<>>, "fin", FALSE, 0, 0)
Str(s)     == Val("string", FALSE, s, "fin", FALSE, 0, 0)
Number(s)  == Val("number", FALSE, s, "fin", FALSE, 0, 0)
Int64(neg, mant) == Val("int64", FALSE, <<>>, "fin", neg, mant, 0)
Float64(k, neg, mant, exp) == Val("float64", FALSE, <<>>, k, neg, mant, exp)
Array(s)   == Val("array", FALSE, s, "fin", FALSE, 0, 0)

\* params[key]: the zero value nil for a missing key
Lookup(ps, key) == IF key \in DOMAIN ps THEN ps[key] ELSE Nil

(***************************************************************************)
(* package strconv, on decimal numerals.  A definition that needs a value  *)
(* more than once takes it as a parameter (ParseInt -> signedInt, ...).    *)
(***************************************************************************)
DigitVal(c) == (CHOOSE i \in DOMAIN DIGITS : DIGITS[i] = c) - 1
AllDigits(s) == \A i \in 1..Len(s) : IsDigit(s[i])

RECURSIVE DigitsValue(_)
DigitsValue(s) ==
    IF Len(s) = 0 THEN 0
    ELSE 10 * DigitsValue(SubSeq(s, 1, Len(s) - 1)) + DigitVal(s[Len(s)])

RECURSIVE FormatNat(_)
FormatNat(n) ==
    IF n < 10 THEN <<DIGITS[n + 1]>>
    ELSE FormatNat(n \div 10) \o <<DIGITS[(n % 10) + 1]>>

RECURSIVE Pow10(_)
Pow10(e) == IF e = 0 THEN 1 ELSE 10 * Pow10(e - 1)

IsNegative(s) == Len(s) > 0 /\ s[1] = "-"
Unsigned(s) == IF Len(s) > 0 /\ s[1] \in {"+", "-"} THEN Tail(s) ELSE s

NoInt == [ok |-> FALSE, neg |-> FALSE, mant |-> 0]
NoFloat == [ok |-> FALSE, k |-> "fin", neg |-> FALSE, mant |-> 0, exp |-> 0]
Finite(neg, mant, exp) == [ok |-> TRUE, k |-> "fin", neg |-> neg, mant |-> mant, exp |-> exp]
Zero == Finite(FALSE, 0, 0)

signedInt(neg, n) == [ok |-> TRUE, neg |-> neg /\ n # 0, mant |-> n]
parseDigits(neg, u) ==
    IF Len(u) > 0 /\ AllDigits(u) THEN signedInt(neg, DigitsValue(u)) ELSE NoInt

\* strconv.ParseInt(s, 10, 64): [ok, neg, mant]; the numerals of the model are
\* far from the 64-bit range, whose check is therefore not modelled
ParseInt(s) == parseDigits(IsNegative(s), Unsigned(s))

parseFraction(neg, ip, fp) ==
    IF AllDigits(ip) /\ AllDigits(fp) /\ Len(ip) + Len(fp) > 0
    THEN Finite(neg, DigitsValue(ip \o fp), Len(fp))
    ELSE NoFloat

parseDecimal(neg, u, dot) ==
    IF dot = 0 THEN parseFraction(neg, u, <<>>)
    ELSE parseFraction(neg, SubSeq(u, 1, dot - 1), SubSeq(u, dot + 1, Len(u)))

parseSpecial(s, neg, u) ==
    IF EqualFold(u, <<"i","n","f">>) \/ EqualFold(u, <<"i","n","f","i","n","i","t","y">>)
    THEN [ok |-> TRUE, k |-> "inf", neg |-> neg, mant |-> 0, exp |-> 0]
    ELSE IF EqualFold(s, <<"n","a","n">>)
    THEN [ok |-> TRUE, k |-> "nan", neg |-> FALSE, mant |-> 0, exp |-> 0]
    ELSE parseDecimal(neg, u, IndexFrom(u, 1, <<".">>))

\* strconv.ParseFloat(s, 64) of a numeral without exponent, or of inf / infinity /
\* nan: [ok, k, neg, mant, exp]
ParseFloat(s) == parseSpecial(s, IsNegative(s), Unsigned(s))

\* float64 ==
FloatEq(a, b) ==
    IF a.k = "nan" \/ b.k = "nan" THEN FALSE
    ELSE IF a.k = "inf" \/ b.k = "inf" THEN a.k = b.k /\ a.neg = b.neg
    ELSE /\ a.mant * Pow10(b.exp) = b.mant * Pow10(a.exp)
         /\ (a.mant = 0 \/ a.neg = b.neg)

\* the fraction digits of mant / 10^exp, exp of them
RECURSIVE FracDigits(_, _)
FracDigits(m, e) ==
    IF e = 0 THEN <<>> ELSE FracDigits(m \div 10, e - 1) \o <<DIGITS[(m % 10) + 1]>>

RECURSIVE Shortest(_, _)
Shortest(m, e) ==
    IF e > 0 /\ m % 10 = 0 THEN Shortest(m \div 10, e - 1) ELSE [mant |-> m, exp |-> e]

formatFinite(m, e, p) ==
    FormatNat(m \div p) \o (IF e = 0 THEN <<>> ELSE <<".">> \o FracDigits(m % p, e))
formatShortest(sh) == formatFinite(sh.mant, sh.exp, Pow10(sh.exp))

\* strconv.FormatFloat(f, 'f', -1, 64): the shortest decimal that reads back as f
FormatFloat(f) ==
    IF f.k = "nan" THEN <<"N","a","N">>
    ELSE IF f.k = "inf" THEN (IF f.neg THEN <<"-">> ELSE <<"+">>) \o <<"I","n","f">>
    ELSE (IF f.neg THEN <<"-">> ELSE <<>>) \o formatShortest(Shortest(f.mant, f.exp))

\* strconv.FormatInt(i, 10)
FormatInt(neg, mant) == (IF neg /\ mant # 0 THEN <<"-">> ELSE <<>>) \o FormatNat(mant)

\* int64(f) of a finite float64: truncation toward zero
TruncInt(f) == f.mant \div Pow10(f.exp)
IsWhole(f) == f.k = "fin" /\ f.mant % Pow10(f.exp) = 0

BoolText(b) == IF b THEN <<"t","r","u","e">> ELSE <<"f","a","l","s","e">>

\* fmt.Sprintf("%v", v); a float64 of the model's size prints as with 'f'
Sprintv(v) ==
    CASE v.t = "nil"     -> <<"<","n","i","l",">">>
      [] v.t = "bool"    -> BoolText(v.b)
      [] v.t = "int64"   -> FormatInt(v.neg, v.mant)
      [] v.t = "float64" -> FormatFloat(v)
      [] OTHER           -> v.s

\* toString (Misc): a value that is neither string nor []byte goes through
\* json.Marshal and loses surrounding double quotes
toString(v) ==
    CASE v.t = "nil"     -> <<"n","u","l","l">>
      [] v.t = "bool"    -> BoolText(v.b)
      [] v.t = "int64"   -> FormatInt(v.neg, v.mant)
      [] v.t = "float64" -> FormatFloat(v)
      [] OTHER           -> v.s

(***************************************************************************)
(* isTruthy                                                                *)
(***************************************************************************)
\* case json.Number: pi = t.Int64(), pf = t.Float64()
numberTruthy(text, pi, pf) ==
    IF pi.ok THEN pi.mant # 0
    ELSE IF pf.ok THEN ~FloatEq(pf, Zero)
    ELSE text # <<"0">>

isTruthy(v) ==
    CASE v.t = "nil"     -> FALSE
      [] v.t = "bool"    -> v.b
      [] v.t = "string"  -> TrimSpace(v.s) # <<>>
      [] v.t = "number"  -> numberTruthy(v.s, ParseInt(v.s), ParseFloat(v.s))
      [] v.t = "float64" -> ~FloatEq(v, Zero)
      [] v.t = "int64"   -> FormatInt(v.neg, v.mant) # <<"0">>
      [] OTHER           -> TRUE

(***************************************************************************)
(* evalCondFlexible.  Its outcome is [panic, val]: panic is TRUE when the  *)
(* call ends in a run-time panic (no caller recovers), val is the boolean  *)
(* it returns otherwise.                                                   *)
(***************************************************************************)
Returns(b) == [panic |-> FALSE, val |-> b]
Panics == [panic |-> TRUE, val |-> FALSE]

\* eq, case json.Number: pi = aa.Int64(), pf = aa.Float64(), bText = Sprintf("%v", b)
numberEq(a, b, pi, pf, bText) ==
    IF b.t = "int64" /\ pi.ok THEN pi.neg = b.neg /\ pi.mant = b.mant
    ELSE IF b.t = "float64" /\ pf.ok THEN FloatEq(pf, b)
    ELSE a.s = bText

\* eq, the other cases: aText = Sprintf("%v", a), bText = Sprintf("%v", b)
textEq(a, b, aText, bText) ==
    CASE a.t = "string" -> a.s = bText
      [] a.t = "bool" -> IF b.t = "bool" THEN a.b = b.b ELSE aText = bText
      [] a.t \in {"int64", "float64"} -> aText = bText
      [] OTHER ->
            IF a.t = "nil" /\ b.t = "nil" THEN TRUE
            ELSE IF a.t = "nil" \/ b.t = "nil" THEN FALSE
            ELSE aText = bText

\* the closure eq of evalCondFlexible
eq(a, b) ==
    IF a.t = "number" THEN numberEq(a, b, ParseInt(a.s), ParseFloat(a.s), Sprintv(b))
    ELSE textEq(a, b, Sprintv(a), Sprintv(b))

SQ == "'"
DQ == "\""

Rhs(v) == [ok |-> TRUE, panic |-> FALSE, v |-> v]
RhsInvalid == [ok |-> FALSE, panic |-> FALSE, v |-> Nil]
RhsPanic == [ok |-> FALSE, panic |-> TRUE, v |-> Nil]

unquote(unq) == ReplaceAll(ReplaceAll(unq, <<SQ, SQ>>, <<SQ>>), <<DQ, DQ>>, <<DQ>>)

\* default: of the switch; pi = ParseInt(rhs), pf = ParseFloat(rhs)
rhsNumber(pi, pf) ==
    IF pi.ok THEN Rhs(Int64(pi.neg, pi.mant))
    ELSE IF pf.ok THEN Rhs(Float64(pf.k, pf.neg, pf.mant, pf.exp))
    ELSE RhsInvalid

\* the switch of evalCondFlexible that reads the right-hand side:
\* [ok, panic, v]; ok = FALSE is its `return false`
rhsValue(rhs) ==
    IF EqualFold(rhs, <<"n","u","l","l">>) THEN Rhs(Nil)
    ELSE IF EqualFold(rhs, <<"t","r","u","e">>) THEN Rhs(Bool(TRUE))
    ELSE IF EqualFold(rhs, <<"f","a","l","s","e">>) THEN Rhs(Bool(FALSE))
    ELSE IF \/ (HasPrefix(rhs, <<SQ>>) /\ HasSuffix(rhs, <<SQ>>))
            \/ (HasPrefix(rhs, <<DQ>>) /\ HasSuffix(rhs, <<DQ>>))
    THEN IF Len(rhs) < 2
         \* rhs[1 : len(rhs)-1] with len(rhs) = 1: slice bounds out of range [1:0]
         THEN RhsPanic
         ELSE Rhs(Str(unquote(SubSeq(rhs, 2, Len(rhs) - 1))))
    ELSE rhsNumber(ParseInt(rhs), ParseFloat(rhs))

\* the operator evalCondFlexible finds in c: "==" first, then "!="
condOp(c) ==
    IF Contains(c, <<"=", "=">>) THEN <<"=", "=">>
    ELSE IF Contains(c, <<"!", "=">>) THEN <<"!", "=">>
    ELSE <<>>

\* lv = params[lhs], rv = rhsValue(rhs)
evalCompare(op, lv, rv) ==
    IF rv.panic THEN Panics
    ELSE IF ~rv.ok THEN Returns(FALSE)
    ELSE IF op = <<"=", "=">> THEN Returns(eq(lv, rv.v))
    ELSE Returns(~eq(lv, rv.v))

\* strings.SplitN(c, op, 2) at the first op, which starts at position at
evalSplit(c, ps, op, at) ==
    evalCompare(op, Lookup(ps, TrimSpace(SubSeq(c, 1, at - 1))),
                rhsValue(TrimSpace(SubSeq(c, at + 2, Len(c)))))

evalOp(c, ps, op) ==
    IF op = <<>> THEN Returns(FALSE) ELSE evalSplit(c, ps, op, IndexFrom(c, 1, op))

evalTrimmed(c, ps) ==
    IF ~ContainsAny(c, {" ", "=", "!", "<", ">"}) THEN Returns(isTruthy(Lookup(ps, c)))
    ELSE evalOp(c, ps, condOp(c))

evalCondFlexible(cnd, ps) == evalTrimmed(TrimSpace(cnd), ps)

(***************************************************************************)
(* Template Renderer (Runner): the regular expressions.  Each reXxxAt(s, i)*)
(* is the match of the expression that starts at position i, as Go's       *)
(* leftmost-first matching finds it: [ok, end, g1, g2] with end the        *)
(* position of the match's last character and g1, g2 the groups.           *)
(***************************************************************************)
NoMatch == [ok |-> FALSE, end |-> 0, g1 |-> <<>>, g2 |-> <<>>]
Match(end, g1, g2) == [ok |-> TRUE, end |-> end, g1 |-> g1, g2 |-> g2]

\* end of the longest run of [A-Za-z0-9_] that starts at i (i - 1 when empty)
IdentRunEnd(s, i) ==
    LET K == {j \in i..Len(s) : ~IsWordChar(s[j])}
    IN  IF K = {} THEN Len(s) ELSE Min(K) - 1

\* /\*(?:END|ENDIF|FI)\*/ under (?i): position of its last character, or 0
TermEndAt(s, p) ==
    IF HasPrefixFoldAt(s, p, <<"/","*","E","N","D","*","/">>) THEN p + 6
    ELSE IF HasPrefixFoldAt(s, p, <<"/","*","E","N","D","I","F","*","/">>) THEN p + 8
    ELSE IF HasPrefixFoldAt(s, p, <<"/","*","F","I","*","/">>) THEN p + 5
    ELSE 0

\* ([\s\S]*?) followed by the terminator: where the first terminator at or after
\* `from` starts, or 0
FirstTerm(s, from) ==
    LET P == {p \in from..Len(s) : TermEndAt(s, p) # 0}
    IN  IF P = {} THEN 0 ELSE Min(P)

\* the lazy body from position `from` up to the terminator that starts at t
blockBody(s, g1, from, t) ==
    IF t = 0 THEN NoMatch ELSE Match(TermEndAt(s, t), g1, SubSeq(s, from, t - 1))

\* reBeginEnd: (?i)/\*BEGIN\*/([\s\S]*?)/\*(?:END|ENDIF|FI)\*/     g2 = body
reBeginEndAt(s, i) ==
    IF HasPrefixFoldAt(s, i, <<"/","*","B","E","G","I","N","*","/">>)
    THEN blockBody(s, <<>>, i + 9, FirstTerm(s, i + 9))
    ELSE NoMatch

\* the predicate of reIfBlock ends before the first '*', at position star:
\* [^*] stops there, and "*/" must follow; \s+ needs one white-space character
\* and [^*]+? one more character before it
ifPredicate(s, i, star) ==
    IF /\ star # 0
       /\ HasPrefixAt(s, star, <<"*","/">>)
       /\ star - (i + 4) >= 2
       /\ IsSpace(s[i + 4])
    THEN blockBody(s, SubSeq(s, i + 5, star - 1), star + 2, FirstTerm(s, star + 2))
    ELSE NoMatch

\* reIfBlock: (?i)/\*IF\s+([^*]+?)\*/([\s\S]*?)/\*(?:END|ENDIF|FI)\*/
\* g1 = the predicate (with white space that \s+ left it: the caller trims),
\* g2 = body
reIfBlockAt(s, i) ==
    IF HasPrefixFoldAt(s, i, <<"/","*","I","F">>)
    THEN ifPredicate(s, i, IndexFrom(s, i + 4, <<"*">>))
    ELSE NoMatch

\* /\*\?\s*\*/ : position of its last character, or 0
optTermClose(s, p, q) ==
    IF HasPrefixAt(s, p, <<"/","*","?">>) /\ HasPrefixAt(s, q, <<"*","/">>)
    THEN q + 1 ELSE 0
OptTermEndAt(s, p) == optTermClose(s, p, SpaceRunEnd(s, p + 3) + 1)

FirstOptTerm(s, from) ==
    LET P == {p \in from..Len(s) : OptTermEndAt(s, p) # 0}
    IN  IF P = {} THEN 0 ELSE Min(P)

optBody(s, key, from, t) ==
    IF t = 0 THEN NoMatch ELSE Match(OptTermEndAt(s, t), key, SubSeq(s, from, t - 1))

\* \s*\?\*/ behind the key s[k0..k1]; q is where the "?*/" has to be
optClose(s, k0, k1, q) ==
    IF k1 >= k0 /\ HasPrefixAt(s, q, <<"?","*","/">>)
    THEN optBody(s, SubSeq(s, k0, k1), q + 3, FirstOptTerm(s, q + 3))
    ELSE NoMatch

optKey(s, k0, k1) == optClose(s, k0, k1, SpaceRunEnd(s, k1 + 1) + 1)
optOpen(s, k0) == optKey(s, k0, IdentRunEnd(s, k0))

\* reOptBlock: (?i)/\*\?\s*([A-Za-z0-9_]+)\s*\?\*/([\s\S]*?)/\*\?\s*\*/
\* g1 = key, g2 = body
reOptBlockAt(s, i) ==
    IF HasPrefixAt(s, i, <<"/","*","?">>)
    THEN optOpen(s, SpaceRunEnd(s, i + 3) + 1)
    ELSE NoMatch

\* end of the longest run of [0-9.+-] that starts at d (d - 1 when empty)
NumberRunEnd(s, d) ==
    LET N == {j \in d..Len(s) : ~(IsDigit(s[j]) \/ s[j] \in {".", "+", "-"})}
    IN  IF N = {} THEN Len(s) ELSE Min(N) - 1

\* ("([^"]*)"|'([^']*)'|[0-9.+-]+|true|false|null) at d: its last position, or 0
DefaultEndAt(s, d) ==
    IF d > Len(s) THEN 0
    ELSE IF s[d] \in {DQ, SQ} THEN IndexFrom(s, d + 1, <<s[d]>>)
    ELSE IF IsDigit(s[d]) \/ s[d] \in {".", "+", "-"} THEN NumberRunEnd(s, d)
    ELSE IF HasPrefixFoldAt(s, d, <<"t","r","u","e">>) THEN d + 3
    ELSE IF HasPrefixFoldAt(s, d, <<"f","a","l","s","e">>) THEN d + 4
    ELSE IF HasPrefixFoldAt(s, d, <<"n","u","l","l">>) THEN d + 3
    ELSE 0

paramDefault(s, name, d, e) ==
    IF e = 0 THEN NoMatch ELSE Match(e, name, SubSeq(s, d, e))

\* the name s[i+2..n1] and "*/" behind it
paramName(s, i, n1) ==
    IF n1 >= i + 2 /\ HasPrefixAt(s, n1 + 1, <<"*","/">>)
    THEN paramDefault(s, SubSeq(s, i + 2, n1), n1 + 3, DefaultEndAt(s, n1 + 3))
    ELSE NoMatch

\* reParam: (?i)/\*([a-zA-Z0-9_]+)\*/(<default>)      g1 = name, g2 = default
reParamAt(s, i) ==
    IF HasPrefixAt(s, i, <<"/","*">>) THEN paramName(s, i, IdentRunEnd(s, i + 2))
    ELSE NoMatch

\* reEmptyWhere: ^(?:WHERE)?\s*(?:AND|OR)?\s*\(?\s*\)?$ from position p on,
\* piece by piece; no piece can match where an earlier optional piece could
skipSpace(up, p) == SpaceRunEnd(up, p) + 1
skipWhere(up, p) == IF HasPrefixAt(up, p, <<"W","H","E","R","E">>) THEN p + 5 ELSE p
skipAndOr(up, p) ==
    IF HasPrefixAt(up, p, <<"A","N","D">>) THEN p + 3
    ELSE IF HasPrefixAt(up, p, <<"O","R">>) THEN p + 2
    ELSE p
skipChar(up, p, c) == IF HasPrefixAt(up, p, <<c>>) THEN p + 1 ELSE p

\* a faulty reEmptyWhere, without its (?:WHERE)? piece
reEmptyAndOr(up) ==
    skipChar(up, skipSpace(up, skipChar(up, skipSpace(up,
        skipAndOr(up, skipSpace(up, 1))), "(")), ")") = Len(up) + 1

reEmptyWhere(up) ==
    skipChar(up, skipSpace(up, skipChar(up, skipSpace(up,
        skipAndOr(up, skipSpace(up, skipWhere(up, 1)))), "(")), ")") = Len(up) + 1

(***************************************************************************)
(* renderNyanSQL.  Each step is one ReplaceAllStringFunc: the leftmost      *)
(* match at or after i is replaced, and the scan goes on behind it.         *)
(***************************************************************************)
\* a faulty optRepl: the body stays whatever the key's value
optKeep(m, ps) == m.g2

\* 1) the callback of reOptBlock
optRepl(m, ps) == IF isTruthy(Lookup(ps, TrimSpace(m.g1))) THEN m.g2 ELSE <<>>

RECURSIVE optFrom(_, _, _)
optNext(s, i, ps, j, m) ==
    SubSeq(s, i, j - 1) \o optRepl(m, ps) \o optFrom(s, m.end + 1, ps)
optScan(s, i, ps, J) ==
    IF J = {} THEN SubSeq(s, i, Len(s)) ELSE optNext(s, i, ps, Min(J), reOptBlockAt(s, Min(J)))
optFrom(s, i, ps) == optScan(s, i, ps, {j \in i..Len(s) : reOptBlockAt(s, j).ok})

\* 2) the callback of reIfBlock: [panic, text]; r = evalCondFlexible(cond, params)
ifBody(m, r) == [panic |-> r.panic, text |-> IF ~r.panic /\ r.val THEN m.g2 ELSE <<>>]
ifRepl(m, ps) == ifBody(m, evalCondFlexible(TrimSpace(m.g1), ps))

RECURSIVE ifFrom(_, _, _)
ifJoin(pre, r, rest) ==
    IF r.panic THEN [panic |-> TRUE, text |-> <<>>]
    ELSE [panic |-> rest.panic, text |-> pre \o r.text \o rest.text]
ifNext(s, i, ps, j, m) ==
    ifJoin(SubSeq(s, i, j - 1), ifRepl(m, ps), ifFrom(s, m.end + 1, ps))
ifScan(s, i, ps, J) ==
    IF J = {} THEN [panic |-> FALSE, text |-> SubSeq(s, i, Len(s))]
    ELSE ifNext(s, i, ps, Min(J), reIfBlockAt(s, Min(J)))
ifFrom(s, i, ps) == ifScan(s, i, ps, {j \in i..Len(s) : reIfBlockAt(s, j).ok})

\* 3) the callback of reBeginEnd; up = strings.ToUpper(strings.TrimSpace(only))
beginKeep(inner, up) == IF up = <<>> \/ reEmptyWhere(up) THEN <<>> ELSE inner
beginRepl(m) ==
    beginKeep(m.g2, ToUpper(TrimSpace(normalizeWhitespace(stripComments(m.g2)))))

RECURSIVE beginFrom(_, _)
beginNext(s, i, j, m) ==
    SubSeq(s, i, j - 1) \o beginRepl(m) \o beginFrom(s, m.end + 1)
beginScan(s, i, J) ==
    IF J = {} THEN SubSeq(s, i, Len(s)) ELSE beginNext(s, i, Min(J), reBeginEndAt(s, Min(J)))
beginFrom(s, i) == beginScan(s, i, {j \in i..Len(s) : reBeginEndAt(s, j).ok})

\* a faulty quoteByDefault: single quotes whatever the default's style
quoteSingle(defWhole, str) ==
    <<SQ>> \o ReplaceAll(str, <<SQ>>, <<SQ, SQ>>) \o <<SQ>>

quoteByDefault(defWhole, str) ==
    IF HasPrefix(defWhole, <<DQ>>)
    THEN <<DQ>> \o ReplaceAll(str, <<DQ>>, <<DQ, DQ>>) \o <<DQ>>
    ELSE <<SQ>> \o ReplaceAll(str, <<SQ>>, <<SQ, SQ>>) \o <<SQ>>

\* a faulty numberText: the number's own text, vv.String(), in every case
numberRaw(text, pi, pf) == text

\* case json.Number: pi = vv.Int64(), pf = vv.Float64()
numberText(text, pi, pf) ==
    IF pi.ok THEN FormatInt(pi.neg, pi.mant)
    ELSE IF pf.ok THEN FormatFloat(pf)
    ELSE text

\* the type switch on v = params[name]
paramText(defWhole, v) ==
    CASE v.t = "bool"    -> BoolText(v.b)
      [] v.t = "float64" -> IF IsWhole(v) THEN FormatInt(v.neg, TruncInt(v))
                            ELSE FormatFloat(v)
      [] v.t = "number"  -> numberText(v.s, ParseInt(v.s), ParseFloat(v.s))
      [] v.t = "string"  -> quoteByDefault(defWhole, v.s)
      [] OTHER           -> quoteByDefault(defWhole, toString(v))

\* 4) the callback of reParam
paramRepl(m, ps) ==
    IF m.g1 \in DOMAIN ps /\ ps[m.g1].t # "nil" THEN paramText(m.g2, ps[m.g1]) ELSE m.g2

RECURSIVE paramFrom(_, _, _)
paramNext(s, i, ps, j, m) ==
    SubSeq(s, i, j - 1) \o paramRepl(m, ps) \o paramFrom(s, m.end + 1, ps)
paramScan(s, i, ps, J) ==
    IF J = {} THEN SubSeq(s, i, Len(s))
    ELSE paramNext(s, i, ps, Min(J), reParamAt(s, Min(J)))
paramFrom(s, i, ps) == paramScan(s, i, ps, {j \in i..Len(s) : reParamAt(s, j).ok})

\* 5)
\* a formatter that remembers an earlier call: it leaves the text of every
\* later call as it is
formatOnce(s) == IF first = <<>> THEN TrimSpace(normalizeWhitespace(s)) ELSE s

formatSQL(s) == TrimSpace(normalizeWhitespace(s))

(***************************************************************************)
(* The templates of the model.  A template is put together from pieces,    *)
(* each with the text it contributes: source = open \o b \o close.         *)
(*   "text"   plain SQL text b                                             *)
(*   "raw"    a lone directive marker b (an opener or a terminator)        *)
(*   "opt"    /*? a ?*/ b /*?*/                                            *)
(*   "if"     /*IF a*/ b /*END*/                                           *)
(*   "param"  /*a*/b, b the default literal                                *)
(***************************************************************************)
Piece(kind, open, a, b, close) ==
    [kind |-> kind, open |-> open, a |-> a, b |-> b, close |-> close]
Text(t) == Piece("text", <<>>, <<>>, t, <<>>)
Raw(t) == Piece("raw", <<>>, <<>>, t, <<>>)
Param(name, def) == Piece("param", <<"/", "*">> \o name \o <<"*", "/">>, name, def, <<>>)

Source(p) == p.open \o p.b \o p.close

RECURSIVE Flat(_)
Flat(ps) == IF Len(ps) = 0 THEN <<>> ELSE Source(Head(ps)) \o Flat(Tail(ps))

SeqsUpTo(S, n) == UNION {[1..k -> S] : k \in 0..n}

MaxBlocks == 2

\* markers
mBEGIN == <<"/","*","B","E","G","I","N","*","/">>
mEND   == <<"/","*","E","N","D","*","/">>
kA      == <<"a">>
kB      == <<"b">>
kJ      == <<"j">>
kK      == <<"k">>
kP      == <<"p">>
kVip    == <<"v","i","p">>
kStatus == <<"s","t","a","t","u","s">>

\* if-blocks
ifA      == Piece("if", <<"/","*","I","F"," ","a","*","/">>, kA, <<"A","N","D"," ","a","=","1">>, mEND)
ifB1     == Piece("if", <<"/","*","i","f"," ","b"," ","=","="," ","1","*","/">>, <<"b"," ","=","="," ","1">>, <<"O","R"," ","b","=","1">>, <<"/","*","e","n","d","i","f","*","/">>)
ifActive == Piece("if", <<"/","*","I","F"," ","s","t","a","t","u","s"," ","=","="," ","'","a","c","t","i","v","e","'","*","/">>, <<"s","t","a","t","u","s"," ","=","="," ","'","a","c","t","i","v","e","'">>,
                  <<" ","A","N","D"," ","s","t","a","t","u","s","=","'","a","c","t","i","v","e","'"," ">>, mEND)
ifNull   == Piece("if", <<"/","*","I","F"," ","s","t","a","t","u","s"," ","=","="," ","n","u","l","l","*","/">>, <<"s","t","a","t","u","s"," ","=","="," ","n","u","l","l">>, <<" ","A","N","D"," ","s"," ","I","S"," ","N","U","L","L"," ">>, <<"/","*","E","N","D","I","F","*","/">>)
ifVip    == Piece("if", <<"/","*","I","f"," "," ","v","i","p"," ","*","/">>, kVip, <<" ","A","N","D"," ","v","i","p","=","1"," ">>, <<"/","*","f","i","*","/">>)
ifQuote  == Piece("if", <<"/","*","I","F"," ","a"," ","=","="," ","'","*","/">>, <<"a"," ","=","="," ","'">>, <<" ","A","N","D"," ","q","=","1"," ">>, mEND)

\* optional blocks
optK == Piece("opt", <<"/","*","?"," ","k"," ","?","*","/">>, kK, <<" ","A","N","D"," ","x","=","1"," ">>, <<"/","*","?","*","/">>)
optJ == Piece("opt", <<"/","*","?","j","?","*","/">>, kJ, <<"y">>, <<"/","*","?"," ","*","/">>)

(***************************************************************************)
(* The inputs of renderNyanSQL: [parts, params].                           *)
(***************************************************************************)
Case(ps, pm) == [parts |-> ps, params |-> pm]
NoParams == <<>>

\* the maps that give key the values of Vs, and the map without it
Maps(key, Vs) == {NoParams} \cup {key :> v : v \in Vs}
Both(M1, M2) == {m1 @@ m2 : m1 \in M1, m2 \in M2}

\* BEGIN ... END around if-blocks, a WHERE before the block or inside it
PruneCases ==
    {Case(<<Text(h), Raw(mBEGIN), Text(l)>> \o bs \o <<Raw(mEND)>>, pm) :
        h \in {<<>>, <<"W","H","E","R","E"," ">>, <<"S","E","L","E","C","T"," ","1"," ">>},
        l \in {<<" ">>, <<" ","W","H","E","R","E"," ">>, <<" ","w","h","e","r","e">>},
        bs \in SeqsUpTo({ifA, ifB1, Text(<<" ">>)}, MaxBlocks),
        pm \in Both(Maps(kA, {Bool(TRUE), Str(<<>>)}), Maps(kB, {Number(<<"1">>)}))}

\* one placeholder /*k*/DEFAULT, possibly followed by a second one, whose key has
\* no value; the values are those a JSON document gives (nil, bool, string,
\* json.Number, array) and the float64 and int64 the type switches also name
ParamCases ==
    {Case(<<Text(<<"x","=">>), Param(kK, d), Text(t)>>, pm) :
        d \in {<<"'","d","'">>, <<"\"","d","\"">>, <<"0">>, <<"-","1",".","5">>, <<"t","r","u","e">>, <<"n","u","l","l">>, <<"'","a"," "," ","b","'">>, <<"'","'">>},
        t \in {<<>>, <<" ","A","N","D"," ","y","=","/","*","j","*","/","\"","q","\"">>},
        pm \in Maps(kK,
            { Nil, Bool(TRUE), Bool(FALSE), Str(<<"a","'","b">>), Str(<<"a","\"","b">>), Str(<<>>), Str(<<"i","t","'","'","s">>), Number(<<"3">>), Number(<<"3",".","0">>), Number(<<"3",".","5">>), Number(<<"-","2">>), Number(<<"0",".","5","0">>), Float64("fin", FALSE, 30, 1), Float64("fin", FALSE, 35, 1), Float64("fin", TRUE, 7, 0), Int64(FALSE, 4), Array(<<"[","1","]">>) })}

\* optional blocks
OptCases ==
    {Case(ps, pm) :
        ps \in SeqsUpTo({optK, optJ, Text(<<" ","z"," ">>)}, MaxBlocks),
        pm \in Both(Maps(kK,
            { Nil, Bool(TRUE), Bool(FALSE), Str(<<>>), Str(<<" ">>), Str(<<"x">>), Str(<<"0">>), Number(<<"0">>), Number(<<"0",".","0">>), Number(<<"-","0">>), Number(<<"1">>), Number(<<"0",".","5">>), Number(<<"-","2">>), Float64("fin", FALSE, 0, 0), Float64("fin", TRUE, 0, 1), Float64("fin", FALSE, 5, 1), Int64(FALSE, 0), Int64(TRUE, 3), Array(<<"[","]">>) }),
            Maps(kJ, {Bool(TRUE)}))}

\* if-blocks
IfCases ==
    {Case(ps, pm) :
        ps \in SeqsUpTo({ifActive, ifNull, ifVip, ifQuote, Text(<<" ","z"," ">>)}, MaxBlocks),
        pm \in Both(Maps(kStatus, {Nil, Str(<<"a","c","t","i","v","e">>), Str(<<"c","l","o","s","e","d">>)}), Maps(kVip, {Bool(TRUE)}))}

\* directive markers that match no block: openers without a terminator, or
\* terminators without an opener
LoneCases ==
    {Case(ps, pm) :
        ps \in SeqsUpTo({Raw(mBEGIN), Raw(<<"/","*","I","F"," ","p","*","/">>), Raw(<<"/","*","?"," ","k"," ","?","*","/">>), Text(<<"1">>), Text(<<" ","x"," ">>)}, MaxBlocks)
               \cup SeqsUpTo({Raw(mEND), Raw(<<"/","*","?","*","/">>), Text(<<"'","y","'">>), Text(<<" ","x"," ">>)}, MaxBlocks),
        pm \in Both(Maps(kK, {Bool(TRUE)}), Maps(kP, {Bool(TRUE)}))}

\* one if-block that compares the key status with a literal, or with null
condNull == Piece("cond", <<"/", "*", "I", "F", " ", "s", "t", "a", "t", "u", "s", " ", "=", "=", " ", "n", "u", "l", "l", "*", "/">>, <<"s", "t", "a", "t", "u", "s", " ", "=", "=", " ", "n", "u", "l", "l">>, <<" ", "A", "N", "D", " ", "n", " ">>, mEND)
condOne  == Piece("cond", <<"/", "*", "I", "F", " ", "s", "t", "a", "t", "u", "s", " ", "=", "=", " ", "1", "*", "/">>, <<"s", "t", "a", "t", "u", "s", " ", "=", "=", " ", "1">>, <<" ", "A", "N", "D", " ", "n", " ">>, mEND)
condTrue == Piece("cond", <<"/", "*", "i", "f", " ", "s", "t", "a", "t", "u", "s", " ", "=", "=", " ", "T", "R", "U", "E", "*", "/">>, <<"s", "t", "a", "t", "u", "s", " ", "=", "=", " ", "T", "R", "U", "E">>, <<" ", "A", "N", "D", " ", "n", " ">>, mEND)
condText == Piece("cond", <<"/", "*", "I", "F", " ", "s", "t", "a", "t", "u", "s", " ", "=", "=", " ", "'", "x", "'", "*", "/">>, <<"s", "t", "a", "t", "u", "s", " ", "=", "=", " ", "'", "x", "'">>, <<" ", "A", "N", "D", " ", "n", " ">>, mEND)

NullCases ==
    {Case(<<Text(<<"z">>), c>>, pm) :
        c \in {condNull, condOne, condTrue, condText},
        pm \in Maps(kStatus,
            { Nil, Bool(TRUE), Bool(FALSE), Str(<<>>), Str(<<"n", "u", "l", "l">>), Str(<<"<", "n", "i", "l", ">">>),
              Str(<<"x">>), Number(<<"0">>), Number(<<"1">>), Number(<<"1", ".", "0">>) })}

(***************************************************************************)
(* renderNyanSQL as a state machine: one action per step of the function.  *)
(* stages collects the value of sqlText after steps 1) to 4).              *)
(***************************************************************************)
Start(c) ==
    /\ parts = c.parts
    /\ params = c.params
    /\ tpl = Flat(c.parts)
    /\ sqlText = Flat(c.parts)
    /\ pc = "opt"
    /\ stages = <<>>
    /\ cmpA = <<>>
    /\ cmpB = <<>>
    /\ cmpRes = FALSE
    /\ Idle

Init ==
    \/ \E c \in PruneCases : Start(c)
    \/ \E c \in ParamCases : Start(c)
    \/ \E c \in OptCases : Start(c)
    \/ \E c \in IfCases : Start(c)
    \/ \E c \in LoneCases : Start(c)
    \/ \E c \in NullCases : Start(c)

RenderOpt ==
    /\ pc = "opt"
    /\ sqlText' = optFrom(sqlText, 1, params)
    /\ stages' = Append(stages, sqlText')
    /\ pc' = "if"
    /\ UNCHANGED <<parts, tpl, params, cmpA, cmpB, cmpRes, idleVars>>

\* evalCondFlexible may panic: nothing recovers, the call never returns
ifDone(r) ==
    IF r.panic
    THEN /\ pc' = "panic"
         /\ UNCHANGED <<sqlText, stages>>
    ELSE /\ sqlText' = r.text
         /\ stages' = Append(stages, r.text)
         /\ pc' = "begin"

RenderIf ==
    /\ pc = "if"
    /\ ifDone(ifFrom(sqlText, 1, params))
    /\ UNCHANGED <<parts, tpl, params, cmpA, cmpB, cmpRes, idleVars>>

RenderBegin ==
    /\ pc = "begin"
    /\ sqlText' = beginFrom(sqlText, 1)
    /\ stages' = Append(stages, sqlText')
    /\ pc' = "param"
    /\ UNCHANGED <<parts, tpl, params, cmpA, cmpB, cmpRes, idleVars>>

RenderParam ==
    /\ pc = "param"
    /\ sqlText' = paramFrom(sqlText, 1, params)
    /\ stages' = Append(stages, sqlText')
    /\ pc' = "format"
    /\ UNCHANGED <<parts, tpl, params, cmpA, cmpB, cmpRes, idleVars>>

RenderFormat ==
    /\ pc = "format"
    /\ sqlText' = formatSQL(sqlText)
    /\ pc' = "done"
    /\ UNCHANGED <<parts, tpl, params, stages, cmpA, cmpB, cmpRes, idleVars>>

Next == RenderOpt \/ RenderIf \/ RenderBegin \/ RenderParam \/ RenderFormat

Spec == Init /\ [][Next]_vars

(***************************************************************************)
(* renderNyanSQL called a second time with the same template and the same  *)
(* parameters, after the first call has returned: first keeps the string   *)
(* the first call returned.                                                *)
(***************************************************************************)
RenderAgain ==
    /\ pc = "done"
    /\ first = <<>>
    /\ first' = <<sqlText>>
    /\ sqlText' = tpl
    /\ stages' = <<>>
    /\ pc' = "opt"
    /\ UNCHANGED <<parts, tpl, params, cmpA, cmpB, cmpRes,
                   flags, fs, db, err, verdict, log, defs, keys, fs0, todo>>

NextTwice == Next \/ RenderAgain

SpecTwice == Init /\ [][NextTwice]_vars

(***************************************************************************)
(* equalSQL as runOne calls it: the expected and the rendered text are     *)
(* cmpA and cmpB.  A text is put together from tokens; cmpB is cmpA, or    *)
(* cmpA with one white-space character or one comment more.                *)
(***************************************************************************)
RECURSIVE Concat(_)
Concat(ts) == IF Len(ts) = 0 THEN <<>> ELSE Head(ts) \o Concat(Tail(ts))

CmpTexts ==
    {Concat(ts) : ts \in SeqsUpTo(
        { <<"x">>, <<"=">>, <<" ">>, <<"\n">>, <<"-">>, <<"(">>, <<"/","*","*","/">> },
        MaxCmpLen)}

InsertAt(s, i, c) == SubSeq(s, 1, i - 1) \o <<c>> \o SubSeq(s, i, Len(s))
Widened(s) == {InsertAt(s, i, c) : i \in 1..(Len(s) + 1), c \in {" ", "\n"}}

\* equal("SELECT  *  FROM t  WHERE  x = 1", "SELECT * FROM t WHERE x=1")
exSpaced == <<"S","E","L","E","C","T"," "," ","*"," "," ","F","R","O","M"," ","t"," "," ","W","H","E","R","E"," "," ","x"," ","="," ","1">>
exTight  == <<"S","E","L","E","C","T"," ","*"," ","F","R","O","M"," ","t"," ","W","H","E","R","E"," ","x","=","1">>
exWide   == <<"S","E","L","E","C","T"," ","*"," ","F","R","O","M"," ","t"," ","W","H","E","R","E"," ","x"," ","="," ","1">>

StartCompare(a, b) ==
    /\ cmpA = a
    /\ cmpB = b
    /\ cmpRes = FALSE
    /\ pc = "cmp"
    /\ parts = <<>>
    /\ params = NoParams
    /\ tpl = <<>>
    /\ sqlText = <<>>
    /\ stages = <<>>
    /\ Idle

\* s with a block comment or a line comment put into it
Commented(s) ==
    {SubSeq(s, 1, i - 1) \o c \o SubSeq(s, i, Len(s)) :
        i \in 1..(Len(s) + 1),
        c \in {<<"/","*","c","*","/">>, <<"-","-","c","\n">>}}

\* pairs of texts that differ in a token: a number, a quoted literal, the token
\* behind a comment
CmpTokenPairs ==
    { <<(<<"x","=","1">>), (<<"x","=","2">>)>>,
      <<(<<"x","=","'","a"," "," ","b","'">>), (<<"x","=","'","a"," ","b","'">>)>>,
      <<(<<"x","=","'","a","'">>), (<<"x","=","'","b","'">>)>>,
      <<(<<"/","*","c","*","/","x","=","1">>), (<<"/","*","c","*","/","x","=","2">>)>>,
      <<(<<"-","-","c","\n","x","=","1">>), (<<"-","-","d","\n","x","=","1">>)>> }

InitCompare ==
    \/ \E a \in CmpTexts : StartCompare(a, a)
    \/ \E a \in CmpTexts : \E b \in Widened(a) : StartCompare(a, b)
    \/ \E a \in {exSpaced, exWide} : StartCompare(a, exTight)
    \/ StartCompare(exSpaced, exWide)
    \/ \E a \in CmpTexts : \E b \in Commented(a) : StartCompare(a, b)
    \/ \E ab \in CmpTokenPairs : StartCompare(ab[1], ab[2])

\* runOne: if !equalSQL(expected, rendered)
Compare ==
    /\ pc = "cmp"
    /\ cmpRes' = equalSQL(cmpA, cmpB)
    /\ pc' = "compared"
    /\ UNCHANGED <<parts, tpl, params, sqlText, stages, cmpA, cmpB, idleVars>>

SpecCompare == InitCompare /\ [][Compare]_vars

(***************************************************************************)
(* Properties of equalSQL and normalizeForCompare, under SpecCompare.      *)
(***************************************************************************)
Without(s, i) == SubSeq(s, 1, i - 1) \o SubSeq(s, i + 1, Len(s))
NextTo(s, i, C) == (i > 1 /\ s[i - 1] \in C) \/ (i < Len(s) /\ s[i + 1] \in C)
Blank == {" ", "\t", "\n", "\r"}

\* no character of s can open or close a comment
CommentFree(s) == \A i \in 1..Len(s) : s[i] \notin {"-", "/", "*"}

\* b is a with one more space, in a run of spaces that a has
SpaceWidened(a, b) ==
    \E i \in 1..Len(b) : b[i] = " " /\ a = Without(b, i) /\ NextTo(b, i, {" "})

\* b is a with one more white-space character, in a white-space run that a has
BlankWidened(a, b) ==
    \E i \in 1..Len(b) : b[i] \in Blank /\ a = Without(b, i) /\ NextTo(b, i, Blank)

\* b is a with one white-space character put directly behind a "("
ParenSpaced(a, b) ==
    \E i \in 2..Len(b) : b[i] \in Blank /\ a = Without(b, i) /\ b[i - 1] = "("

\* b is a with one white-space character put between a word and the "=" that
\* follows it directly in a, or between "=" and the word that follows it
OperatorSpaced(a, b) ==
    \E i \in 2..(Len(b) - 1) :
        /\ b[i] \in Blank
        /\ a = Without(b, i)
        /\ \/ (IsWordChar(b[i - 1]) /\ b[i + 1] = "=")
           \/ (b[i - 1] = "=" /\ IsWordChar(b[i + 1]))

\* the tokens of a comment-free text: runs of word characters, runs of operator
\* characters, and every other character that is not white space by itself
OperatorChars == {"=", "<", ">", "!"}
OperatorRunEnd(s, i) ==
    LET K == {j \in i..Len(s) : s[j] \notin OperatorChars}
    IN  IF K = {} THEN Len(s) ELSE Min(K) - 1

RECURSIVE TokensFrom(_, _)
TokensFrom(s, i) ==
    IF i > Len(s) THEN <<>>
    ELSE IF s[i] \in Blank THEN TokensFrom(s, i + 1)
    ELSE IF IsWordChar(s[i])
         THEN <<SubSeq(s, i, IdentRunEnd(s, i))>> \o TokensFrom(s, IdentRunEnd(s, i) + 1)
    ELSE IF s[i] \in OperatorChars
         THEN <<SubSeq(s, i, OperatorRunEnd(s, i))>>
                  \o TokensFrom(s, OperatorRunEnd(s, i) + 1)
    ELSE <<(<<s[i]>>)>> \o TokensFrom(s, i + 1)
Tokens(s) == TokensFrom(s, 1)

\* C2 as stated: equalSQL(a, b) is true for any two texts that differ only in
\* the amount of white space between tokens, white space around an operator
\* such as "=" included ("x = 1" and "x=1" compare equal).
C2_AnyWhitespaceBetweenTokens ==
    (pc = "compared" /\ CommentFree(cmpA) /\ CommentFree(cmpB)
        /\ Tokens(cmpA) = Tokens(cmpB)) => cmpRes

\* C2 as the code has it: equalSQL(a, b) is true when b differs from a in the
\* length of a run of spaces that a has (outside comments: in the length of any
\* white-space run) or in white space directly behind "("; white space in b
\* between a word and "=", where a has none, makes equalSQL(a, b) false:
\* "SELECT  *  FROM t  WHERE  x = 1" equals "SELECT * FROM t WHERE x = 1" and
\* differs from "SELECT * FROM t WHERE x=1".
C2_WhitespaceRunsOnly ==
    pc = "compared" =>
        /\ SpaceWidened(cmpA, cmpB) => cmpRes
        /\ (CommentFree(cmpB) /\ BlankWidened(cmpA, cmpB)) => cmpRes
        /\ (CommentFree(cmpB) /\ ParenSpaced(cmpA, cmpB)) => cmpRes
        /\ (CommentFree(cmpB) /\ OperatorSpaced(cmpA, cmpB)) => ~cmpRes
        /\ (cmpA = exSpaced /\ cmpB = exWide) => cmpRes
        /\ (cmpA \in {exSpaced, exWide} /\ cmpB = exTight) => ~cmpRes

\* C2, its case: two texts that differ in the white space around "=" have been
\* compared and found different
C2_Witness ==
    /\ pc = "compared"
    /\ CommentFree(cmpB)
    /\ OperatorSpaced(cmpA, cmpB)
    /\ ~cmpRes

\* C3 as stated: normalizeForCompare(normalizeForCompare(s)) =
\* normalizeForCompare(s) for every text s that is compared.
C3_NormalizeIdempotent ==
    pc = "compared" =>
        normalizeForCompare(normalizeForCompare(cmpA)) = normalizeForCompare(cmpA)

(***************************************************************************)
(* Properties of renderNyanSQL, under Spec.  The shape of the template is  *)
(* read from its pieces.                                                   *)
(***************************************************************************)
Kinds(ps) == {ps[i].kind : i \in 1..Len(ps)}
ContainsFold(s, t) == Contains(ToUpper(s), ToUpper(t))
WHERE == <<"W","H","E","R","E">>

\* head /*BEGIN*/ lead <if-blocks> /*END*/
PruneShape ==
    /\ Len(parts) >= 4
    /\ parts[1].kind = "text"
    /\ parts[2] = Raw(mBEGIN)
    /\ parts[3].kind = "text"
    /\ parts[Len(parts)] = Raw(mEND)
PruneHead == parts[1].b
PruneLead == parts[3].b
PruneBlocks == SubSeq(parts, 4, Len(parts) - 1)
PruneHasIf == \E i \in 1..Len(PruneBlocks) : PruneBlocks[i].kind = "if"
PruneAllFalse ==
    \A i \in 1..Len(PruneBlocks) :
        PruneBlocks[i].kind = "if" =>
            evalCondFlexible(PruneBlocks[i].a, params) = Returns(FALSE)

\* C1 as stated: a template `WHERE /*BEGIN*/ <if-blocks> /*END*/` whose if-block
\* predicates are all false renders without any WHERE keyword.
C1_NoWhereAtAll ==
    (/\ pc = "done"
     /\ PruneShape
     /\ PruneHead = <<"W","H","E","R","E"," ">>
     /\ PruneLead = <<" ">>
     /\ PruneHasIf
     /\ PruneAllFalse) => ~ContainsFold(sqlText, WHERE)

\* C1 as the code has it: when every if-block predicate between /*BEGIN*/ and
\* /*END*/ is false, the whole block is dropped, a WHERE written inside the block
\* with it, and the text before /*BEGIN*/ stays: the output is that text, so it
\* has a WHERE exactly when a WHERE stands before /*BEGIN*/.
C1_PruneDropsBlockOnly ==
    (pc = "done" /\ PruneShape /\ PruneAllFalse) =>
        /\ sqlText = TrimSpace(PruneHead)
        /\ ContainsFold(sqlText, WHERE) <=> ContainsFold(PruneHead, WHERE)

\* C1, its case: a block with a WHERE inside and an if-block whose predicate is
\* false has been rendered, and the output has no WHERE
C1_Witness ==
    /\ pc = "done"
    /\ PruneShape
    /\ PruneHasIf
    /\ PruneAllFalse
    /\ ContainsFold(PruneLead, WHERE)
    /\ ~ContainsFold(sqlText, WHERE)

\* C4 as stated: evalCondFlexible returns a boolean for every predicate an
\* if-block can hold, whatever the parameters: the if step never panics.
C4_EvaluatorTotal == pc # "panic"

\* x=/*k*/DEFAULT tail
ParamShape ==
    /\ Len(parts) = 3
    /\ parts[1] = Text(<<"x", "=">>)
    /\ parts[2].kind = "param"
    /\ parts[3].kind = "text"
ParamDefault == parts[2].b
ParamKey == parts[2].a
ParamGiven == ParamKey \in DOMAIN params /\ params[ParamKey].t # "nil"
ParamValue == params[ParamKey]
\* what the tail, whose key j has no value, renders as
TailOut(t) == IF t = <<>> THEN <<>> ELSE <<" ","A","N","D"," ","y","=","\"","q","\"">>
ParamTailOut == TailOut(parts[3].b)

\* C5 as stated: a placeholder /*k*/DEFAULT whose key is missing or null is
\* rendered as DEFAULT exactly as written, the /*k*/ marker removed.
C5_DefaultAsWritten ==
    (pc = "done" /\ ParamShape /\ ~ParamGiven) =>
        sqlText = <<"x", "=">> \o ParamDefault \o ParamTailOut

\* the delimiter C6 asks for, and the value with every delimiter in it doubled
QuoteOf(def) == IF Len(def) > 0 /\ def[1] = DQ THEN DQ ELSE SQ
RECURSIVE Doubled(_, _)
Doubled(v, q) ==
    IF Len(v) = 0 THEN <<>>
    ELSE (IF Head(v) = q THEN <<q, q>> ELSE <<Head(v)>>) \o Doubled(Tail(v), q)

\* every maximal run of q in s has even length: no q of s stands unescaped
RunEnd(s, i, q) ==
    LET K == {j \in i..Len(s) : s[j] # q}
    IN  IF K = {} THEN Len(s) ELSE Min(K) - 1
EvenRuns(s, q) ==
    \A i \in 1..Len(s) :
        (s[i] = q /\ (i = 1 \/ s[i - 1] # q)) => (RunEnd(s, i, q) - i + 1) % 2 = 0

\* what step 4) made of the placeholder: the text between "x=" and the tail
ParamLiteral(out) == SubSeq(out, 3, Len(out) - Len(ParamTailOut))
Interior(lit) == SubSeq(lit, 2, Len(lit) - 1)

\* C6: a string parameter is substituted as a literal delimited by the default's
\* own quote character (double quote if the default starts with one, single quote
\* otherwise) with every occurrence of that delimiter in the value doubled, so no
\* delimiter stands unescaped inside the literal.
C6_QuoteStyleKept ==
    (Len(stages) >= 4 /\ ParamShape /\ ParamGiven /\ ParamValue.t = "string") =>
        /\ stages[4] = <<"x", "=">> \o <<QuoteOf(ParamDefault)>>
                           \o Doubled(ParamValue.s, QuoteOf(ParamDefault))
                           \o <<QuoteOf(ParamDefault)>> \o ParamTailOut
        /\ EvenRuns(Interior(ParamLiteral(stages[4])), QuoteOf(ParamDefault))

\* C6, its case: a value with a double quote in it went into a placeholder whose
\* default is double-quoted
C6_Witness ==
    /\ pc = "done"
    /\ ParamShape
    /\ ParamGiven
    /\ ParamValue.t = "string"
    /\ ParamDefault[1] = DQ
    /\ Contains(ParamValue.s, <<DQ>>)
    /\ Contains(sqlText, <<DQ, DQ>>)

\* the numeric parameters, and the value of each as mant / 10^exp
IsNumeric(v) == v.t \in {"number", "float64"}
NumericValue(v) == IF v.t = "number" THEN ParseFloat(v.s) ELSE v
HasFraction(f) == f.mant % Pow10(f.exp) # 0

OptShape == "opt" \in Kinds(parts) /\ Kinds(parts) \subseteq {"opt", "text"}

\* truthiness as C8 words it
HasNonZeroDigit(s) == \E i \in 1..Len(s) : IsDigit(s[i]) /\ s[i] # "0"
Truthy(ps, key) ==
    IF key \notin DOMAIN ps THEN FALSE
    ELSE CASE ps[key].t = "nil"     -> FALSE
           [] ps[key].t = "bool"    -> ps[key].b
           [] ps[key].t = "string"  -> \E i \in 1..Len(ps[key].s) : ps[key].s[i] \notin Blank
           [] ps[key].t = "number"  -> HasNonZeroDigit(ps[key].s)
           [] ps[key].t \in {"int64", "float64"} -> ps[key].mant # 0
           [] OTHER                 -> TRUE

RECURSIVE OptExpected(_, _)
OptExpected(ps, pm) ==
    IF Len(ps) = 0 THEN <<>>
    ELSE (IF Head(ps).kind = "opt" /\ ~Truthy(pm, Head(ps).a) THEN <<>> ELSE Head(ps).b)
             \o OptExpected(Tail(ps), pm)

\* C8: step 1) replaces each /*? key ?*/ BODY /*?*/ by BODY when params[key] is
\* truthy and by nothing otherwise (missing or null: falsy; bool: itself; string:
\* non-empty after trimming; number: non-zero; any other value: truthy), and the
\* later steps only tidy the white space of the result.
C8_OptionalBlock ==
    (Len(stages) >= 1 /\ OptShape) =>
        /\ stages[1] = OptExpected(parts, params)
        /\ pc = "done" => sqlText = formatSQL(OptExpected(parts, params))

\* C8, its case: a block whose key has the number 0.0 has been dropped, next to
\* a block whose key is true, which stayed
C8_Witness ==
    /\ pc = "done"
    /\ OptShape
    /\ parts = <<optK, optJ>>
    /\ kK \in DOMAIN params
    /\ params[kK] = Number(<<"0", ".", "0">>)
    /\ kJ \in DOMAIN params
    /\ sqlText = <<"y">>

\* if-blocks and plain text only, one block at least
IfShape == "if" \in Kinds(parts) /\ Kinds(parts) \subseteq {"if", "text"}

\* the value C9 asks evalCondFlexible to have for the predicates of the model:
\* status == 'active', status == null, vip, a == '
StatusIs(pm, v) == kStatus \in DOMAIN pm /\ pm[kStatus] = v
Holds(p, pm) ==
    CASE p = ifActive -> StatusIs(pm, Str(<<"a","c","t","i","v","e">>))
      [] p = ifNull   -> kStatus \notin DOMAIN pm \/ StatusIs(pm, Nil)
      [] p = ifVip    -> Truthy(pm, kVip)
      [] OTHER        -> FALSE

RECURSIVE IfExpected(_, _)
IfExpected(ps, pm) ==
    IF Len(ps) = 0 THEN <<>>
    ELSE (IF Head(ps).kind = "if" /\ ~Holds(Head(ps), pm) THEN <<>> ELSE Head(ps).b)
             \o IfExpected(Tail(ps), pm)

\* C9 as stated: step 2) replaces each /*IF predicate*/ BODY /*END*/ (or ENDIF,
\* FI, in any case) by BODY when the predicate is true and by nothing otherwise:
\* once the step has been taken, its result is there and is that text.
C9_IfBlock ==
    (IfShape /\ pc \notin {"opt", "if"}) =>
        /\ Len(stages) >= 2
        /\ stages[2] = IfExpected(parts, params)

\* lone directive markers and plain text only, one marker at least
LoneShape == "raw" \in Kinds(parts) /\ Kinds(parts) \subseteq {"raw", "text"} /\ ~PruneShape

\* C10 as stated: directive markers that complete no block are in the output
\* unchanged, apart from the white space step 5) tidies.
C10_MalformedPassThrough ==
    (pc = "done" /\ LoneShape) => sqlText = formatSQL(tpl)

\* the tokens of a SQL text, comments left out: a quoted literal, a run of word
\* characters, a run of operator characters, or any other character by itself;
\* gap tells whether white space stands between a token and the one before it
CommentEnd(s, i) ==
    IF HasPrefixAt(s, i, <<"/", "*">>)
    THEN (IF IndexFrom(s, i + 2, <<"*", "/">>) = 0 THEN Len(s)
          ELSE IndexFrom(s, i + 2, <<"*", "/">>) + 1)
    ELSE IF HasPrefixAt(s, i, <<"-", "-">>)
    THEN (IF IndexFrom(s, i, <<"\n">>) = 0 THEN Len(s) ELSE IndexFrom(s, i, <<"\n">>))
    ELSE 0
LiteralEnd(s, i) ==
    IF IndexFrom(s, i + 1, <<s[i]>>) = 0 THEN Len(s) ELSE IndexFrom(s, i + 1, <<s[i]>>)
TokenEnd(s, i) ==
    IF s[i] \in {SQ, DQ} THEN LiteralEnd(s, i)
    ELSE IF IsWordChar(s[i]) THEN IdentRunEnd(s, i)
    ELSE IF s[i] \in OperatorChars THEN OperatorRunEnd(s, i)
    ELSE i

RECURSIVE SqlItemsFrom(_, _, _)
SqlItemsFrom(s, i, gap) ==
    IF i > Len(s) THEN <<>>
    ELSE IF CommentEnd(s, i) # 0 THEN SqlItemsFrom(s, CommentEnd(s, i) + 1, gap)
    ELSE IF s[i] \in Blank THEN SqlItemsFrom(s, i + 1, TRUE)
    ELSE <<[tok |-> SubSeq(s, i, TokenEnd(s, i)), gap |-> gap]>>
             \o SqlItemsFrom(s, TokenEnd(s, i) + 1, FALSE)
SqlItems(s) == SqlItemsFrom(s, 1, FALSE)
SqlTokens(s) == [i \in 1..Len(SqlItems(s)) |-> SqlItems(s)[i].tok]
\* the white space before the first token does not count
SqlGaps(s) == [i \in 1..Len(SqlItems(s)) |-> i > 1 /\ SqlItems(s)[i].gap]

\* C11 as stated: equalSQL(a, b) does not depend on the text and the placement of
\* the comments of a and b (texts with the same tokens, spaced alike, are equal),
\* and is false whenever the non-comment tokens of a and b differ, a token behind
\* a comment and a quoted literal included.
C11_ComparatorSensitivity ==
    pc = "compared" =>
        /\ (SqlTokens(cmpA) = SqlTokens(cmpB) /\ SqlGaps(cmpA) = SqlGaps(cmpB)) => cmpRes
        /\ SqlTokens(cmpA) # SqlTokens(cmpB) => ~cmpRes


(***************************************************************************)
(* Params auto-generation and the generator's helpers: what a template     *)
(* says about its parameters.                                              *)
(***************************************************************************)
ToLower(s) == [i \in 1..Len(s) |-> ToLowerCh(s[i])]

\* the closing "?*/" of reBlockKeys behind the key s[k0..k1]
blockKeyClose(s, k0, k1, q) ==
    IF k1 >= k0 /\ HasPrefixAt(s, q, <<"?","*","/">>)
    THEN Match(q + 2, SubSeq(s, k0, k1), <<>>)
    ELSE NoMatch
blockKeyName(s, k0, k1) == blockKeyClose(s, k0, k1, SpaceRunEnd(s, k1 + 1) + 1)

\* reBlockKeys: (?i)/\*\?\s*([A-Za-z0-9_]+)\s*\?\*/        g1 = key
reBlockKeysAt(s, i) ==
    IF HasPrefixAt(s, i, <<"/","*","?">>)
    THEN blockKeyName(s, SpaceRunEnd(s, i + 3) + 1, IdentRunEnd(s, SpaceRunEnd(s, i + 3) + 1))
    ELSE NoMatch

\* rePHKeysStrict: /\*([A-Za-z0-9_]+)\*/('(?:[^']*)'|"(?:[^"]*)")
\* reParam's match where the default is a quoted one     g1 = name, g2 = default
strictDefault(m) == IF m.ok /\ Head(m.g2) \in {SQ, DQ} THEN m ELSE NoMatch
rePHKeysStrictAt(s, i) == strictDefault(reParamAt(s, i))

\* the head of an if-block alone; star is where [^*]+? has to stop
ifHead(s, i, star) ==
    IF /\ star # 0
       /\ HasPrefixAt(s, star, <<"*","/">>)
       /\ star - (i + 4) >= 2
       /\ IsSpace(s[i + 4])
    THEN Match(star + 1, SubSeq(s, i + 5, star - 1), <<>>)
    ELSE NoMatch

\* reIfHead: (?i)/\*IF\s+([^*]+?)\*/                      g1 = the predicate
reIfHeadAt(s, i) ==
    IF HasPrefixFoldAt(s, i, <<"/","*","I","F">>)
    THEN ifHead(s, i, IndexFrom(s, i + 4, <<"*">>))
    ELSE NoMatch

\* [A-Za-z_][A-Za-z0-9_]* : a word starts at a letter or "_"
reWordAt(s, i) ==
    IF i <= Len(s) /\ IsWordChar(s[i]) /\ ~IsDigit(s[i])
    THEN Match(IdentRunEnd(s, i), SubSeq(s, i, IdentRunEnd(s, i)), <<>>)
    ELSE NoMatch

matchAt(re, s, i) ==
    CASE re = "reParam"        -> reParamAt(s, i)
      [] re = "rePHKeysStrict" -> rePHKeysStrictAt(s, i)
      [] re = "reBlockKeys"    -> reBlockKeysAt(s, i)
      [] re = "reIfHead"       -> reIfHeadAt(s, i)
      [] re = "word"           -> reWordAt(s, i)

\* re.FindAllStringSubmatch(s, -1): the matches from left to right, each one
\* sought behind the one before it
RECURSIVE FindAllFrom(_, _, _)
findNext(re, s, m) == <<m>> \o FindAllFrom(re, s, m.end + 1)
findScan(re, s, J) == IF J = {} THEN <<>> ELSE findNext(re, s, matchAt(re, s, Min(J)))
FindAllFrom(re, s, i) == findScan(re, s, {j \in i..Len(s) : matchAt(re, s, j).ok})
FindAllStringSubmatch(re, s) == FindAllFrom(re, s, 1)

\* the default branch of extractParamDefaults: pi = ParseInt, pf = ParseFloat
numberDefault(defWhole, pi, pf) ==
    IF pi.ok THEN Int64(pi.neg, pi.mant)
    ELSE IF pf.ok THEN Float64(pf.k, pf.neg, pf.mant, pf.exp)
    ELSE Str(defWhole)

quotedDefault(defWhole, q) ==
    Str(ReplaceAll(SubSeq(defWhole, 2, Len(defWhole) - 1), <<q, q>>, <<q>>))

\* the switch of extractParamDefaults on defWhole and low = ToLower(defWhole)
defaultValue(defWhole, low) ==
    IF HasPrefix(defWhole, <<SQ>>) /\ HasSuffix(defWhole, <<SQ>>) THEN quotedDefault(defWhole, SQ)
    ELSE IF HasPrefix(defWhole, <<DQ>>) /\ HasSuffix(defWhole, <<DQ>>) THEN quotedDefault(defWhole, DQ)
    ELSE IF low = <<"t","r","u","e">> THEN Bool(TRUE)
    ELSE IF low = <<"f","a","l","s","e">> THEN Bool(FALSE)
    ELSE IF low = <<"n","u","l","l">> THEN Nil
    ELSE numberDefault(defWhole, ParseInt(defWhole), ParseFloat(defWhole))

\* m[name] = value, for the matches in their order: a later one replaces an
\* earlier one of the same name
RECURSIVE defaultsOf(_, _)
defaultsOf(ms, acc) ==
    IF Len(ms) = 0 THEN acc
    ELSE defaultsOf(Tail(ms),
            (Head(ms).g1 :> defaultValue(Head(ms).g2, ToLower(Head(ms).g2))) @@ acc)

extractParamDefaults(text) ==
    defaultsOf(FindAllStringSubmatch("reParam", text), <<>>)

\* the first captures of the matches, as a set
Captured(ms) == {ms[i].g1 : i \in 1..Len(ms)}

\* the params of autoGenParamsJSONC: the keys with quoted defaults and the keys
\* of optional blocks, each with its default or ""
autoParamsOf(keys_, defs_) ==
    [k \in keys_ |-> IF k \in DOMAIN defs_ THEN defs_[k] ELSE Str(<<>>)]

autoGenParams(text) ==
    autoParamsOf(Captured(FindAllStringSubmatch("rePHKeysStrict", text))
                    \cup Captured(FindAllStringSubmatch("reBlockKeys", text)),
                 extractParamDefaults(text))

\* what decodeParams reads from the text that jsonLiteral wrote for v: a number
\* comes back as the json.Number of its text
readBack(v) ==
    CASE v.t = "int64"   -> Number(FormatInt(v.neg, v.mant))
      [] v.t = "float64" -> Number(FormatFloat(v))
      [] OTHER           -> v
decodeWritten(m) == [k \in DOMAIN m |-> readBack(m[k])]


(***************************************************************************)
(* Runner core: runOne, execOnDBTx and the classification in main.         *)
(* An error is its message; what the operating system or the driver says   *)
(* is drawn from Causes.                                                   *)
(***************************************************************************)
\* fmt.Errorf(prefix + "%w", cause)
Errorf(prefix, cause) == [set |-> TRUE, msg |-> prefix \o cause]

Causes == {<<"d", "e", "n", "i", "e", "d">>, <<"S", "Q", "L", " ", "m", "i", "s", "m", "a", "t", "c", "h", ":", " ", "n", "o">>}

addNewline(s) == IF HasSuffix(s, <<"\n">>) THEN s ELSE s \o <<"\n">>

\* diff: the two normalized texts, or nothing when they are the same
diffLines(e, a) == IF e = a THEN <<>> ELSE <<"-", " ">> \o e \o <<"\n", "+", " ">> \o a
diff(expected, actual) == diffLines(normalizeForCompare(expected), normalizeForCompare(actual))

\* a faulty classifyErr, which looks for the words anywhere in the message
classifyAnywhere(e) ==
    IF ~e.set THEN ""
    ELSE IF Contains(e.msg, <<"S", "Q", "L", " ", "m", "i", "s", "m", "a", "t", "c", "h", ":">>) THEN "F"
    ELSE "E"

classifyErr(e) ==
    IF ~e.set THEN ""
    ELSE IF HasPrefix(e.msg, <<"S", "Q", "L", " ", "m", "i", "s", "m", "a", "t", "c", "h", ":">>) THEN "F"
    ELSE "E"

\* execBatch: the pieces between semicolons, trimmed, the empty ones skipped
RECURSIVE batchStatements(_)
batchStatements(pieces) ==
    IF Len(pieces) = 0 THEN <<>>
    ELSE (IF TrimSpace(Head(pieces)) = <<>> THEN <<>> ELSE <<TrimSpace(Head(pieces))>>)
            \o batchStatements(Tail(pieces))
splitBySemicolon(s) == Split(s, <<";">>)

\* execBatch when the ExecContext call number bad fails (0: none does):
\* the statements that ran, and the error
runBatch(stmts, bad, cause) ==
    IF bad \in 1..Len(stmts)
    THEN [ran |-> SubSeq(stmts, 1, bad - 1), err |-> [set |-> TRUE, msg |-> cause]]
    ELSE [ran |-> stmts, err |-> NoError]
execBatch(batch, bad, cause) == runBatch(batchStatements(splitBySemicolon(batch)), bad, cause)

\* enforceReadOnly: ro is what became of the request, err what is returned.
\* fails: the driver rejects the statement
enforceReadOnly(driverName, enable, fails, cause) ==
    IF ~enable THEN [ro |-> "off", err |-> NoError]
    ELSE CASE driverName = "pgx" ->
                IF fails THEN [ro |-> "failed", err |-> Errorf(<<"s", "e", "t", " ", "r", "e", "a", "d", "-", "o", "n", "l", "y", " ", "(", "p", "o", "s", "t", "g", "r", "e", "s", ")", ":", " ">>, cause)]
                ELSE [ro |-> "on", err |-> NoError]
           [] driverName = "mysql" ->
                IF fails THEN [ro |-> "failed", err |-> Errorf(<<"s", "e", "t", " ", "r", "e", "a", "d", "-", "o", "n", "l", "y", " ", "(", "m", "y", "s", "q", "l", ")", ":", " ">>, cause)]
                ELSE [ro |-> "on", err |-> NoError]
           [] driverName = "sqlite" ->
                IF fails THEN [ro |-> "failed", err |-> Errorf(<<"s", "e", "t", " ", "r", "e", "a", "d", "-", "o", "n", "l", "y", " ", "(", "s", "q", "l", "i", "t", "e", " ", "P", "R", "A", "G", "M", "A", " ", "q", "u", "e", "r", "y", "_", "o", "n", "l", "y", "=", "O", "N", ")", ":", " ">>, cause)]
                ELSE [ro |-> "on", err |-> NoError]
           [] driverName = "duckdb" ->
                IF fails THEN [ro |-> "failed", err |-> NoError]
                ELSE [ro |-> "on", err |-> NoError]
           [] OTHER -> [ro |-> "unsupported", err |-> NoError]

\* the drivers the program registers; sql.Open knows no other
Drivers == {"pgx", "mysql", "sqlite", "duckdb"}

\* the environment of one call of execOnDBTx: which of its operations fail
MaxStatements == 3

Faults ==
    [open : BOOLEAN, begin : BOOLEAN, ro : BOOLEAN, seed : 0..MaxStatements,
     sql : 0..MaxStatements, commit : BOOLEAN, cause : Causes]

DBState(opened, tx, ro, seeded, executed) ==
    [opened |-> opened, tx |-> tx, ro |-> ro, seeded |-> seeded, executed |-> executed]

\* the end of execOnDBTx: Commit or Rollback
dbFinish(doCommit, f, ro, seeded, executed) ==
    IF doCommit
    THEN IF f.commit
         THEN [db |-> DBState(TRUE, "commitFailed", ro, seeded, executed),
               err |-> [set |-> TRUE, msg |-> f.cause]]
         ELSE [db |-> DBState(TRUE, "committed", ro, seeded, executed), err |-> NoError]
    ELSE [db |-> DBState(TRUE, "rolledBack", ro, seeded, executed), err |-> NoError]

\* execBatch(ctx, tx, sqlText), b its outcome
dbStatements(doCommit, f, ro, seeded, b) ==
    IF b.err.set
    THEN [db |-> DBState(TRUE, "rolledBack", ro, seeded, b.ran), err |-> b.err]
    ELSE dbFinish(doCommit, f, ro, seeded, b.ran)

\* the seeds, s their outcome
dbSeeded(sqlText_, doCommit, f, ro, s) ==
    IF s.err.set
    THEN [db |-> DBState(TRUE, "rolledBack", ro, s.ran, <<>>),
          err |-> Errorf(<<"s", "e", "e", "d", ":", " ">>, s.err.msg)]
    ELSE dbStatements(doCommit, f, ro, s.ran, execBatch(sqlText_, f.sql, f.cause))

dbSeeds(sqlText_, seeds, doCommit, f, ro) ==
    IF Len(seeds) > 0
    THEN dbSeeded(sqlText_, doCommit, f, ro, execBatch(Join(seeds, <<";", "\n">>), f.seed, f.cause))
    ELSE dbSeeded(sqlText_, doCommit, f, ro, [ran |-> <<>>, err |-> NoError])

\* after BeginTx; r is what enforceReadOnly returned
dbReadOnly(sqlText_, seeds, doCommit, f, r) ==
    IF r.err.set
    THEN [db |-> DBState(TRUE, "rolledBack", r.ro, <<>>, <<>>), err |-> r.err]
    ELSE dbSeeds(sqlText_, seeds, doCommit, f, r.ro)

\* execOnDBTx under the faults f: the state of the database side afterwards
\* and the error returned
execOnDBTx(sqlText_, driverName, seeds, doCommit, readOnly, f) ==
    IF f.open \/ driverName \notin Drivers
    THEN [db |-> DBState(FALSE, "none", "off", <<>>, <<>>), err |-> [set |-> TRUE, msg |-> f.cause]]
    ELSE IF f.begin
    THEN [db |-> DBState(TRUE, "none", "off", <<>>, <<>>), err |-> [set |-> TRUE, msg |-> f.cause]]
    ELSE dbReadOnly(sqlText_, seeds, doCommit, f,
                    enforceReadOnly(driverName, readOnly, f.ro, f.cause))

\* the files of one test case and the seeds: which exist, and what they hold
Files(sql, pfile, expected, actual, gseed, tseed) ==
    [sql |-> sql, params |-> pfile, expected |-> expected, actual |-> actual,
     gseed |-> gseed, tseed |-> tseed]
File(text) == [state |-> "file", text |-> text]
Absent == [state |-> "absent", text |-> <<>>]
Unreadable == [state |-> "unreadable", text |-> <<>>]
Unset == [state |-> "unset", text |-> <<>>]

Flags(autoParams, autoExpected, snapshotUpdate, noexec, doCommit, readOnly, driver) ==
    [autoParams |-> autoParams, autoExpected |-> autoExpected,
     snapshotUpdate |-> snapshotUpdate, noexec |-> noexec, doCommit |-> doCommit,
     readOnly |-> readOnly, driver |-> driver]

\* runOne returns: the error, and main classifies it later
return(e) ==
    /\ err' = e
    /\ pc' = "returned"

\* 1) tplBytes, err := os.ReadFile(tc.SQLPath)
ReadSQL ==
    /\ pc = "readSQL"
    /\ IF fs.sql = "file"
       THEN /\ pc' = "readParams"
            /\ err' = err
       ELSE \E cause \in Causes : return(Errorf(<<"r", "e", "a", "d", " ", "s", "q", "l", ":", " ">>, cause))
    /\ log' = Append(log, "sql")
    /\ UNCHANGED <<parts, tpl, params, sqlText, stages, cmpA, cmpB, cmpRes,
                   flags, fs, db, verdict, defs, keys, first, fs0, todo>>

\* 2) the params: inline, read from the file, or generated with -auto-params
\* when the file does not exist and the path is not blank
ReadParams ==
    /\ pc = "readParams"
    /\ \E cause \in Causes, written \in BOOLEAN, reread \in BOOLEAN :
        CASE fs.params \in {"inline", "file", "garbled"} ->
                /\ pc' = "decode"
                /\ UNCHANGED <<err, fs, params>>
                /\ log' = Append(log, "params")
          [] fs.params = "absent" /\ flags.autoParams ->
                /\ log' = Append(log, "autogen")
                /\ IF ~written
                   THEN /\ return(Errorf(<<"a", "u", "t", "o", "-", "g", "e", "n", " ", "p", "a", "r", "a", "m", "s", ":", " ">>, cause))
                        /\ UNCHANGED <<fs, params>>
                   ELSE /\ fs' = [fs EXCEPT !.params = "file"]
                        /\ params' = decodeWritten(autoGenParams(tpl))
                        /\ IF reread
                           THEN /\ pc' = "decode"
                                /\ err' = err
                           ELSE return(Errorf(<<"r", "e", "a", "d", " ", "p", "a", "r", "a", "m", "s", ":", " ">>, cause))
          [] OTHER ->
                /\ return(Errorf(<<"r", "e", "a", "d", " ", "p", "a", "r", "a", "m", "s", ":", " ">>, cause))
                /\ UNCHANGED <<fs, params>>
                /\ log' = Append(log, "params")
    /\ UNCHANGED <<parts, tpl, sqlText, stages, cmpA, cmpB, cmpRes,
                   flags, db, verdict, defs, keys, first, fs0, todo>>

\* 3) decodeParams; then renderNyanSQL begins
DecodeParams ==
    /\ pc = "decode"
    /\ IF fs.params = "garbled"
       THEN /\ \E cause \in Causes : return(Errorf(<<"d", "e", "c", "o", "d", "e", " ", "p", "a", "r", "a", "m", "s", ":", " ">>, cause))
            /\ UNCHANGED sqlText
       ELSE /\ pc' = "opt"
            /\ sqlText' = tpl
            /\ err' = err
    /\ log' = Append(log, "decode")
    /\ UNCHANGED <<parts, tpl, params, stages, cmpA, cmpB, cmpRes,
                   flags, fs, db, verdict, defs, keys, first, fs0, todo>>

\* os.WriteFile(tc.ActualOut, ...) when the test names one; its error is dropped
writeActual(actual, text, written) ==
    IF actual.state # "unset" /\ written THEN File(text) ELSE actual

\* 5) the expected file: read, then generated, updated or compared.
\* mkdir, written: whether MkdirAll and WriteFile succeed
CheckExpected ==
    /\ pc = "done"
    /\ \E cause \in Causes, mkdir \in BOOLEAN, written \in BOOLEAN, saved \in BOOLEAN :
        /\ CASE fs.expected.state = "unreadable" ->
                  /\ return(Errorf(<<"r", "e", "a", "d", " ", "e", "x", "p", "e", "c", "t", "e", "d", ":", " ">>, cause))
                  /\ fs' = [fs EXCEPT !.actual = writeActual(fs.actual, sqlText, saved)]
                  /\ log' = Append(log, "expected")
                  /\ UNCHANGED <<cmpA, cmpB, cmpRes>>
             [] fs.expected.state = "absent" /\ flags.autoExpected ->
                  /\ log' = Append(log, "generate")
                  /\ UNCHANGED <<cmpA, cmpB, cmpRes>>
                  /\ IF ~mkdir
                     THEN /\ return(Errorf(<<"m", "a", "k", "e", " ", "e", "x", "p", "e", "c", "t", "e", "d", " ", "d", "i", "r", ":", " ">>, cause))
                          /\ fs' = [fs EXCEPT !.actual = writeActual(fs.actual, sqlText, saved)]
                     ELSE IF ~written
                     THEN /\ return(Errorf(<<"w", "r", "i", "t", "e", " ", "e", "x", "p", "e", "c", "t", "e", "d", ":", " ">>, cause))
                          /\ fs' = [fs EXCEPT !.actual = writeActual(fs.actual, sqlText, saved)]
                     ELSE /\ fs' = [fs EXCEPT !.actual = writeActual(fs.actual, sqlText, saved),
                                              !.expected = File(addNewline(sqlText))]
                          /\ pc' = "exec"
                          /\ err' = err
             [] fs.expected.state = "file" /\ flags.snapshotUpdate ->
                  /\ log' = Append(log, "update")
                  /\ UNCHANGED <<cmpA, cmpB, cmpRes>>
                  /\ IF ~written
                     THEN /\ return(Errorf(<<"s", "n", "a", "p", "s", "h", "o", "t", " ", "u", "p", "d", "a", "t", "e", " ", "f", "a", "i", "l", "e", "d", ":", " ">>, cause))
                          /\ fs' = [fs EXCEPT !.actual = writeActual(fs.actual, sqlText, saved)]
                     ELSE /\ fs' = [fs EXCEPT !.actual = writeActual(fs.actual, sqlText, saved),
                                              !.expected = File(addNewline(sqlText))]
                          /\ pc' = "exec"
                          /\ err' = err
             [] fs.expected.state = "file" /\ ~flags.snapshotUpdate ->
                  /\ log' = Append(log, "equalSQL")
                  /\ cmpA' = fs.expected.text
                  /\ cmpB' = sqlText
                  /\ cmpRes' = equalSQL(fs.expected.text, sqlText)
                  /\ fs' = [fs EXCEPT !.actual = writeActual(fs.actual, sqlText, saved)]
                  /\ IF cmpRes'
                     THEN /\ pc' = "exec"
                          /\ err' = err
                     ELSE return(Errorf(<<"S", "Q", "L", " ", "m", "i", "s", "m", "a", "t", "c", "h", ":", "\n">>, diff(fs.expected.text, sqlText)))
             [] OTHER ->
                  /\ log' = Append(log, "expected")
                  /\ UNCHANGED <<cmpA, cmpB, cmpRes>>
                  /\ fs' = [fs EXCEPT !.actual = writeActual(fs.actual, sqlText, saved)]
                  /\ pc' = "exec"
                  /\ err' = err
    /\ UNCHANGED <<parts, tpl, params, sqlText, stages,
                   flags, db, verdict, defs, keys, first, fs0, todo>>

seedG == <<"g", ";", "\n", "h", ";">>
seedT == <<"t">>

\* the seeds runOne hands over: the global one, then the test's own
seedTexts(gseed, tseed) ==
    (IF gseed = "file" THEN <<seedG>> ELSE <<>>) \o (IF tseed = "file" THEN <<seedT>> ELSE <<>>)

\* 6) -noexec ends the call; otherwise the seeds are read and execOnDBTx runs
executed(r) ==
    /\ db' = r.db
    /\ return(IF r.err.set THEN Errorf(<<"e", "x", "e", "c", "u", "t", "e", " ", "D", "B", ":", " ">>, r.err.msg) ELSE NoError)

\* the seeds are read, then execOnDBTx runs under some faults
callDB ==
    IF fs.gseed = "unreadable"
    THEN /\ \E cause \in Causes : return(Errorf(<<"r", "e", "a", "d", " ", "g", "l", "o", "b", "a", "l", " ", "s", "e", "e", "d", ":", " ">>, cause))
         /\ log' = Append(log, "seeds")
         /\ UNCHANGED db
    ELSE IF fs.tseed = "unreadable"
    THEN /\ \E cause \in Causes : return(Errorf(<<"r", "e", "a", "d", " ", "p", "e", "r", "-", "t", "e", "s", "t", " ", "s", "e", "e", "d", ":", " ">>, cause))
         /\ log' = Append(log, "seeds")
         /\ UNCHANGED db
    ELSE /\ \E f \in Faults :
             executed(execOnDBTx(sqlText, flags.driver, seedTexts(fs.gseed, fs.tseed),
                                 flags.doCommit, flags.readOnly, f))
         /\ log' = Append(log, "execOnDBTx")

\* a faulty runOne, which goes on to the database under -noexec too
noexecIgnored == callDB

\* if noexec { return actualSQL, nil }
skipDB ==
    /\ return(NoError)
    /\ log' = Append(log, "noexec")
    /\ UNCHANGED db

Execute ==
    /\ pc = "exec"
    /\ IF flags.noexec THEN skipDB ELSE callDB
    /\ UNCHANGED <<parts, tpl, params, sqlText, stages, cmpA, cmpB, cmpRes,
                   flags, fs, verdict, defs, keys, first, fs0, todo>>

\* main: switch classifyErr(e)
Classify ==
    /\ pc = "returned"
    /\ verdict' = (IF classifyErr(err) = "" THEN "." ELSE classifyErr(err))
    /\ pc' = "reported"
    /\ UNCHANGED <<parts, tpl, params, sqlText, stages, cmpA, cmpB, cmpRes,
                   flags, fs, db, err, log, defs, keys, first, fs0, todo>>

\* the inputs of runOne: a test case (template and params), the flags, the files
runA == Case(<<Text(<<"x", "=">>), Param(kK, <<"'", "d", "'">>), Text(<<";", "y", "=", "1">>)>>, kK :> Str(<<"v">>))
runB == Case(<<Text(<<"z">>), ifVip>>, kVip :> Bool(TRUE))
runC == Case(<<ifQuote>>, NoParams)

ExpectedFiles ==
    {Absent, Unreadable, File(<<"x", "=", "'", "v", "'", ";", "y", "=", "1", "\n">>), File(<<" ", "x", "=", "'", "v", "'", ";", "y", "=", "1", "\n", "\n">>),
     File(<<"x", "=", "'", "d", "'", ";", "y", "=", "1", "\n">>), File(<<"z", " ", "A", "N", "D", " ", "v", "i", "p", "=", "1", "\n">>), File(<<>>)}

NoDB == DBState(FALSE, "none", "off", <<>>, <<>>)

StartRun(c, fl, files) ==
    /\ parts = c.parts
    /\ params = c.params
    /\ tpl = Flat(c.parts)
    /\ sqlText = <<>>
    /\ pc = "readSQL"
    /\ stages = <<>>
    /\ cmpA = <<>>
    /\ cmpB = <<>>
    /\ cmpRes = FALSE
    /\ flags = fl
    /\ fs = files
    /\ db = NoDB
    /\ err = NoError
    /\ verdict = ""
    /\ log = <<>>
    /\ fs0 = files
    /\ todo = <<>>
    /\ IdleInfer /\ first = <<>>

InitRun ==
    \* the template, the params
    \/ \E c \in {runA, runB}, sql \in {"file", "unreadable"},
          pfile \in {"inline", "file", "garbled", "absent", "nopath", "unreadable"},
          autoParams \in BOOLEAN, e \in {Absent, File(<<"x", "=", "'", "d", "'", ";", "y", "=", "1", "\n">>)} :
            StartRun(c, Flags(autoParams, FALSE, FALSE, TRUE, FALSE, FALSE, "sqlite"),
                     Files(sql, pfile, e, Unset, "unset", "unset"))
    \* the expected file
    \/ \E c \in {runA, runB, runC}, e \in ExpectedFiles, actual \in {Unset, File(<<>>)},
          autoExpected \in BOOLEAN, snapshotUpdate \in BOOLEAN, noexec \in BOOLEAN :
            StartRun(c, Flags(FALSE, autoExpected, snapshotUpdate, noexec, FALSE, FALSE, "sqlite"),
                     Files("file", "file", e, actual, "unset", "unset"))
    \* the database
    \/ \E e \in {Absent, File(<<"x", "=", "'", "v", "'", ";", "y", "=", "1", "\n">>), File(<<"x", "=", "'", "w", "'">>)},
          gseed \in {"unset", "file", "unreadable"}, tseed \in {"unset", "file", "unreadable"},
          doCommit \in BOOLEAN, readOnly \in BOOLEAN, noexec \in BOOLEAN,
          driver \in Drivers \cup {"sqlite3"} :
            StartRun(runA, Flags(FALSE, FALSE, FALSE, noexec, doCommit, readOnly, driver),
                     Files("file", "file", e, Unset, gseed, tseed))

NextRun ==
    \/ ReadSQL \/ ReadParams \/ DecodeParams
    \/ RenderOpt \/ RenderIf \/ RenderBegin \/ RenderParam \/ RenderFormat
    \/ CheckExpected \/ Execute \/ Classify

SpecRun == InitRun /\ [][NextRun]_vars


(***************************************************************************)
(* C12: how main reports the result of runOne.                             *)
(***************************************************************************)
Reached(step) == \E i \in 1..Len(log) : log[i] = step

\* runOne got as far as the expected file and read it
ExpectedRead == fs0.expected.state = "file" /\ (Reached("equalSQL") \/ Reached("update"))

\* the expected file as it was, and the rendered SQL, are different for equalSQL
ExpectedDiffers == ~equalSQL(fs0.expected.text, sqlText)

\* C12 as stated: a test is reported as 'F' if and only if its expected file was
\* read successfully and equalSQL(expected, rendered) is false.
C12_MismatchWheneverUnequal ==
    pc = "reported" => (verdict = "F" <=> (ExpectedRead /\ ExpectedDiffers))

\* C12, amended: a test is reported as 'F' if and only if its expected file was
\* read successfully, -snapshot-update is unset and equalSQL(expected, rendered)
\* is false; every other error runOne returns is reported as 'E', whatever its
\* cause says, and a nil result as a pass.
C12_MismatchClassified ==
    pc = "reported" =>
        /\ verdict = "F" <=> (ExpectedRead /\ ~flags.snapshotUpdate /\ ExpectedDiffers)
        /\ verdict = "E" <=> (err.set /\ ~(ExpectedRead /\ ~flags.snapshotUpdate /\ ExpectedDiffers))
        /\ verdict = "." <=> ~err.set
        /\ verdict \in {"F", "E", "."}

\* C12 witness: a mismatch reported as 'F', the rendered SQL being x='v';y=1 and
\* the expected file another statement
C12_Witness ==
    /\ pc = "reported"
    /\ verdict = "F"
    /\ sqlText = <<"x", "=", "'", "v", "'", ";", "y", "=", "1">>
    /\ fs0.expected.text = <<"x", "=", "'", "d", "'", ";", "y", "=", "1", "\n">>


(***************************************************************************)
(* C13: when execOnDBTx commits.                                           *)
(***************************************************************************)
\* the statements of the seeds and of the rendered SQL of runA, as written
SeedStatements ==
    (IF fs.gseed = "file" THEN <<<<"g">>, <<"h">>>> ELSE <<>>)
        \o (IF fs.tseed = "file" THEN <<<<"t">>>> ELSE <<>>)
RenderedStatements == <<<<"x", "=", "'", "v", "'">>, <<"y", "=", "1">>>>

\* the transaction has begun and execOnDBTx has returned
TxOver == pc \in {"returned", "reported"} /\ db.tx # "none"

\* every step before the end of the transaction succeeded
StepsSucceeded ==
    /\ db.ro # "failed"
    /\ db.seeded = SeedStatements
    /\ db.executed = RenderedStatements

\* C13: the transaction is committed only when -commit is set and read-only
\* enforcement, every seed statement and every rendered statement succeeded;
\* on every other path after the transaction has begun it is rolled back.
C13_RollbackByDefault ==
    TxOver =>
        /\ db.tx = "committed" => (flags.doCommit /\ StepsSucceeded)
        /\ ~(flags.doCommit /\ StepsSucceeded) => db.tx = "rolledBack"


(***************************************************************************)
(* C15: -snapshot-update.                                                  *)
(***************************************************************************)
\* runOne is past step 5: rendering and the expected step raised no error
PastExpected == Reached("noexec") \/ Reached("seeds") \/ Reached("execOnDBTx")

\* C15: whenever runOne is run with -snapshot-update and rendering succeeds,
\* after the call the expected file holds the rendered SQL plus a trailing
\* newline and no mismatch is reported, whether or not the file existed before.
C15_SnapshotAlwaysWritten ==
    (pc = "reported" /\ flags.snapshotUpdate /\ PastExpected) =>
        /\ fs.expected = File(IF HasSuffix(sqlText, <<"\n">>) THEN sqlText ELSE sqlText \o <<"\n">>)
        /\ verdict # "F"


(***************************************************************************)
(* C19: the database comes last.                                           *)
(***************************************************************************)
\* runOne has called execOnDBTx
DBCalled == Reached("execOnDBTx")

\* the steps before step 6 in their order, each passed without error
StepsBefore ==
    /\ Len(log) = 5
    /\ log[1] = "sql"
    /\ log[2] \in {"params", "autogen"}
    /\ log[3] = "decode"
    /\ log[4] \in {"expected", "generate", "update", "equalSQL"}
    /\ log[5] = "execOnDBTx"
    /\ Len(stages) = 4
    /\ log[4] = "equalSQL" => cmpRes

Mismatch == Reached("equalSQL") /\ ~equalSQL(fs0.expected.text, sqlText)

\* C19: runOne opens a database connection only after rendering and the
\* expected-file step have finished without error and only when -noexec is
\* unset; with -noexec, or when the comparison reports a mismatch, no seed or
\* rendered statement is ever executed.
C19_DatabaseLast ==
    /\ (DBCalled \/ db # NoDB) => (~flags.noexec /\ StepsBefore /\ pc \in {"returned", "reported"})
    /\ (flags.noexec \/ Mismatch) => (~db.opened /\ db.seeded = <<>> /\ db.executed = <<>>)

\* C19 witness: the comparison passed, -noexec is unset, and the seeds and the
\* rendered statements were executed
C19_Witness ==
    /\ pc = "reported"
    /\ log = <<"sql", "params", "decode", "equalSQL", "execOnDBTx">>
    /\ db.opened
    /\ db.seeded # <<>>
    /\ db.executed = <<<<"x", "=", "'", "v", "'">>, <<"y", "=", "1">>>>


(***************************************************************************)
(* Generator helpers: findTruthyKeysForVariants, guessParamsFromSQL,       *)
(* sampleValueForKey.                                                      *)
(***************************************************************************)
\* the byte of a character of a name: digits, then capitals, "_", small letters
ByteOf(c) ==
    IF IsDigit(c) THEN 48 + DigitVal(c)
    ELSE IF IsUpper(c) THEN 64 + LetterIndex(c, UPPER)
    ELSE IF IsLower(c) THEN 96 + LetterIndex(c, LOWER)
    ELSE 95

\* a < b for Go strings: byte by byte
RECURSIVE StringLess(_, _)
StringLess(a, b) ==
    IF Len(b) = 0 THEN FALSE
    ELSE IF Len(a) = 0 THEN TRUE
    ELSE IF Head(a) = Head(b) THEN StringLess(Tail(a), Tail(b))
    ELSE ByteOf(Head(a)) < ByteOf(Head(b))

\* sort.Sort(sort.StringSlice(keys)) of the keys of a set
RECURSIVE SortStrings(_)
sortNext(S, least) == <<least>> \o SortStrings(S \ {least})
SortStrings(S) ==
    IF S = {} THEN <<>>
    ELSE sortNext(S, CHOOSE x \in S : \A y \in S : x = y \/ StringLess(x, y))

Reserved == {<<"n", "u", "l", "l">>, <<"t", "r", "u", "e">>, <<"f", "a", "l", "s", "e">>, <<"a", "n", "d">>, <<"o", "r">>, <<"n", "o", "t">>}

\* the words of one predicate that are not reserved
condWords(ws) == {w \in Captured(ws) : ToLower(w) \notin Reserved}

\* the words of the predicates of all heads
RECURSIVE headWords(_)
headWords(ms) ==
    IF Len(ms) = 0 THEN {}
    ELSE condWords(FindAllStringSubmatch("word", Head(ms).g1)) \cup headWords(Tail(ms))

findTruthyKeysForVariants(sqlContent) ==
    SortStrings(headWords(FindAllStringSubmatch("reIfHead", sqlContent))
                    \cup Captured(FindAllStringSubmatch("reBlockKeys", sqlContent)))

\* guessParamsFromSQL: the defaults, and "" for the key of an optional block
\* that has none
guessed(ds, blockKeys) ==
    [k \in DOMAIN ds \cup blockKeys |-> IF k \in DOMAIN ds THEN ds[k] ELSE Str(<<>>)]
guessParamsFromSQL(sqlContent) ==
    guessed(extractParamDefaults(sqlContent),
            Captured(FindAllStringSubmatch("reBlockKeys", sqlContent)))

\* sampleValueForKey, l = strings.ToLower(key)
sampleOf(l) ==
    IF Contains(l, <<"e", "m", "a", "i", "l">>) THEN Str(<<"d", "u", "m", "m", "y", "@", "e", "x", "a", "m", "p", "l", "e", ".", "c", "o", "m">>)
    ELSE IF Contains(l, <<"n", "a", "m", "e">>) \/ Contains(l, <<"u", "s", "e", "r">>) THEN Str(<<"d", "u", "m", "m", "y", "n", "a", "m", "e">>)
    ELSE IF HasSuffix(l, <<"i", "d">>) \/ Contains(l, <<"c", "o", "u", "n", "t">>) \/ Contains(l, <<"n", "u", "m">>)
    THEN Int64(FALSE, 1)
    ELSE IF Contains(l, <<"d", "a", "t", "e">>) \/ HasSuffix(l, <<"_", "a", "t">>) THEN Str(<<"2", "0", "2", "5", "-", "0", "1", "-", "0", "1", " ", "0", "0", ":", "0", "0", ":", "0", "0">>)
    ELSE Str(<<"x">>)
sampleValueForKey(key) == sampleOf(ToLower(key))

(***************************************************************************)
(* The inference as a state machine: extractParamDefaults, then            *)
(* findTruthyKeysForVariants, on one template.                             *)
(***************************************************************************)
ifNot == Piece("if", <<"/", "*", "i", "f", " ", "N", "o", "t", " ", "x", "1", " ", "a", "n", "d", " ", "T", "R", "U", "E", "*", "/">>, <<"N", "o", "t", " ", "x", "1", " ", "a", "n", "d", " ", "T", "R", "U", "E">>, <<" ", "A", "N", "D", " ", "x", "=", "1", " ">>, mEND)
ifOr  == Piece("if", <<"/", "*", "I", "F", " ", "B", "2", " ", "O", "R", " ", "3", "c", " ", "!", "=", " ", "n", "u", "l", "l", "*", "/">>, <<"B", "2", " ", "O", "R", " ", "3", "c", " ", "!", "=", " ", "n", "u", "l", "l">>, <<" ", "A", "N", "D", " ", "b", "=", "2", " ">>, mEND)

MaxInferParts == 2

InferParts ==
    SeqsUpTo({ifNot, ifOr, ifActive, ifVip, optK, optJ, Raw(<<"/", "*", "I", "F", " ", "p", "*", "/">>),
              Raw(<<"/", "*", "?", " ", "k", " ", "?", "*", "/">>), Text(<<" ", "z", " ">>)}, MaxInferParts)
    \cup SeqsUpTo({Param(<<"n", "a", "m", "e">>, <<"'", "b", "o", "b", "'">>), Param(<<"a", "g", "e">>, <<"0">>), Param(<<"a", "g", "e">>, <<"-", "1", ".", "5", "0">>),
                   Param(kB, <<"\"", "q", "\"">>), Param(kB, <<"T", "R", "U", "E">>), Param(kJ, <<"n", "u", "l", "l">>),
                   Param(kJ, <<"1", ".", "2", ".", "3">>), Param(kK, <<"'", "i", "t", "'", "'", "s", "'">>), Param(kK, <<"'", "'">>),
                   optK, Text(<<" ", "z", " ">>)}, MaxInferParts)

StartInfer(ps) ==
    /\ parts = ps
    /\ params = NoParams
    /\ tpl = Flat(ps)
    /\ sqlText = <<>>
    /\ pc = "infer"
    /\ stages = <<>>
    /\ cmpA = <<>>
    /\ cmpB = <<>>
    /\ cmpRes = FALSE
    /\ Idle

InitInfer == \E ps \in InferParts : StartInfer(ps)

InferSkeleton ==
    /\ pc = "infer"
    /\ defs' = extractParamDefaults(tpl)
    /\ pc' = "skeleton"
    /\ UNCHANGED <<parts, tpl, params, sqlText, stages, cmpA, cmpB, cmpRes,
                   flags, fs, db, err, verdict, log, keys, first, fs0, todo>>

InferPredicateNames ==
    /\ pc = "skeleton"
    /\ keys' = findTruthyKeysForVariants(tpl)
    /\ pc' = "inferred"
    /\ UNCHANGED <<parts, tpl, params, sqlText, stages, cmpA, cmpB, cmpRes,
                   flags, fs, db, err, verdict, log, defs, first, fs0, todo>>

NextInfer == InferSkeleton \/ InferPredicateNames

SpecInfer == InitInfer /\ [][NextInfer]_vars


(***************************************************************************)
(* C16, C17: what the inference returns, against the pieces the template   *)
(* was written from.                                                       *)
(***************************************************************************)
ParamPieces == {i \in DOMAIN parts : parts[i].kind = "param"}

IsIntegerNumeral(d) == Len(Unsigned(d)) > 0 /\ AllDigits(Unsigned(d))

\* v is the default literal d decoded: the string whose quotes, doubled, give
\* the text between the delimiters; a bool; null; an integer; a float; or d
DefaultDecoded(v, d) ==
    IF Head(d) \in {SQ, DQ}
    THEN v.t = "string" /\ Doubled(v.s, Head(d)) = SubSeq(d, 2, Len(d) - 1)
    ELSE IF EqualFold(d, <<"t", "r", "u", "e">>) THEN v = Bool(TRUE)
    ELSE IF EqualFold(d, <<"f", "a", "l", "s", "e">>) THEN v = Bool(FALSE)
    ELSE IF EqualFold(d, <<"n", "u", "l", "l">>) THEN v = Nil
    ELSE IF IsIntegerNumeral(d)
    THEN v.t = "int64" /\ v.mant = DigitsValue(Unsigned(d))
                       /\ v.neg = (IsNegative(d) /\ v.mant # 0)
    ELSE IF ParseFloat(d).ok THEN v.t = "float64" /\ FloatEq(v, ParseFloat(d))
    ELSE v = Str(d)

\* C16: extractParamDefaults returns, for every placeholder span /*name*/DEFAULT
\* of the template, an entry name -> the default decoded to a typed value
\* (quoted default -> string with doubled quotes unescaped, true/false -> bool,
\* null -> null, otherwise integer, then float, then raw string), and no name
\* that is not a placeholder of the template.
C16_SkeletonInference ==
    pc \in {"skeleton", "inferred"} =>
        /\ \A i \in ParamPieces :
              /\ parts[i].a \in DOMAIN defs
              /\ DefaultDecoded(defs[parts[i].a], parts[i].b)
        /\ DOMAIN defs \subseteq {parts[i].a : i \in ParamPieces}

\* the identifier-like words of a predicate: its maximal runs of name
\* characters, without the digits they begin with
RECURSIVE DropDigits(_)
DropDigits(w) == IF Len(w) > 0 /\ IsDigit(Head(w)) THEN DropDigits(Tail(w)) ELSE w
MaximalRuns(p) ==
    {r \in (1..Len(p)) \X (1..Len(p)) :
        /\ r[1] <= r[2]
        /\ \A k \in r[1]..r[2] : IsWordChar(p[k])
        /\ (r[1] = 1 \/ ~IsWordChar(p[r[1] - 1]))
        /\ (r[2] = Len(p) \/ ~IsWordChar(p[r[2] + 1]))}
IsReserved(w) ==
    \E r \in {<<"n", "u", "l", "l">>, <<"t", "r", "u", "e">>, <<"f", "a", "l", "s", "e">>, <<"a", "n", "d">>, <<"o", "r">>, <<"n", "o", "t">>} : EqualFold(w, r)
PredicateWords(p) ==
    {w \in {DropDigits(SubSeq(p, r[1], r[2])) : r \in MaximalRuns(p)} :
        Len(w) > 0 /\ ~IsReserved(w)}

\* the names the if-blocks and the optional blocks of the template give
BlockNames ==
    UNION {PredicateWords(parts[i].a) : i \in {j \in DOMAIN parts : parts[j].kind = "if"}}
        \cup {parts[i].a : i \in {j \in DOMAIN parts : parts[j].kind = "opt"}}

\* a comes before b in byte order
Precedes(a, b) ==
    \E k \in 1..Len(b) :
        /\ k <= Len(a) + 1
        /\ SubSeq(a, 1, k - 1) = SubSeq(b, 1, k - 1)
        /\ (k = Len(a) + 1 \/ ByteOf(a[k]) < ByteOf(b[k]))

\* C17: findTruthyKeysForVariants returns exactly the set (sorted, without
\* duplicates) of the identifier-like words in the predicates of the template's
\* if-blocks, minus the reserved words null/true/false/and/or/not in any letter
\* case, united with the keys of all optional blocks.
C17_PredicateNames ==
    pc = "inferred" =>
        /\ Range(keys) = BlockNames
        /\ \A i \in 1..Len(keys), j \in 1..Len(keys) : i < j => Precedes(keys[i], keys[j])


(***************************************************************************)
(* C20: null in the predicates of if-blocks.                               *)
(***************************************************************************)
NullShape == Len(parts) = 2 /\ parts[2].kind = "cond"

\* step 2) kept the body of the block
BodyKept == stages[2] = parts[1].b \o parts[2].b

StatusNull == kStatus \notin DOMAIN params \/ params[kStatus].t = "nil"

\* C20: `k == null` is true if and only if params[k] is missing or null, and
\* `k == <non-null literal>` is false whenever params[k] is missing or null, for
\* every string, bool and number value of params[k].
C20_NullEqualsOnlyNull ==
    (NullShape /\ Len(stages) >= 2) =>
        IF parts[2] = condNull THEN BodyKept <=> StatusNull
        ELSE StatusNull => ~BodyKept


(***************************************************************************)
(* C18: two calls of renderNyanSQL with the same arguments.                *)
(***************************************************************************)
SecondCall == Len(first) = 1

Path(dir, name) == [dir |-> dir, name |-> name]
Content(kind, note, inline, map, text) ==
    [kind |-> kind, note |-> note, inline |-> inline, map |-> map, text |-> text]

\* TestDef of a generated test, as writeJSONC writes it
TestDef(name, tags) == Content("def", tags, FALSE, <<>>, name)
\* writeParamsJSONC: the note, then the keys in sorted order with their literals
ParamsFile(note, m) == Content("params", note, FALSE, m, <<>>)
SqlFile(text) == Content("sql", "", FALSE, <<>>, text)
stubExpected == SqlFile(<<"-", "-", " ", "f", "i", "l", "l", "e", "d", " ", "b", "y", " ", "s", "n", "a", "p", "s", "h", "o", "t", " ", "u", "p", "d", "a", "t", "e", "\n">>)

put(f, p, c) == [q \in DOMAIN f \cup {p} |-> IF q = p THEN c ELSE f[q]]

\* the files after a step, and whether the process is still running
Ok(f) == [fs |-> f, ok |-> TRUE]
Died(f) == [fs |-> f, ok |-> FALSE]

\* die(os.WriteFile(p, c)): deny holds the paths that cannot be written
WriteFile(r, p, c, deny) ==
    IF ~r.ok THEN r
    ELSE IF p \in deny THEN Died(r.fs)
    ELSE Ok(put(r.fs, p, c))

\* if fileNotExists(expPath) { _ = os.WriteFile(expPath, stub) }
writeStub(r, p, deny) ==
    IF ~r.ok \/ p \in DOMAIN r.fs \/ p \in deny THEN r
    ELSE Ok(put(r.fs, p, stubExpected))

\* renderNyanSQL as one function: [panic, text]
rendered(r, ps) ==
    IF r.panic THEN [panic |-> TRUE, text |-> <<>>]
    ELSE [panic |-> FALSE, text |-> formatSQL(paramFrom(beginFrom(r.text, 1), 1, ps))]
renderNyanSQL(text, ps) == rendered(ifFrom(optFrom(text, 1, ps), 1, ps), ps)

\* rendered, err := renderNyanSQL(..); die(err); die(os.WriteFile(expPath, addNewline(rendered)))
expectedOf(r, p, rd, deny) ==
    IF rd.panic THEN Died(r.fs)
    ELSE WriteFile(r, p, SqlFile(addNewline(rd.text)), deny)
writeExpected(r, p, text, pm, deny) ==
    IF ~r.ok THEN r ELSE expectedOf(r, p, renderNyanSQL(text, pm), deny)

\* pb, _ := os.ReadFile(paramPath); pm, _ := decodeParams(pb)
decodeFile(f, p) == IF p \in DOMAIN f THEN decodeWritten(f[p].map) ELSE <<>>

\* the sources under -src, sorted by path: a.sql, then a__vip.sql
nameA == <<"a">>
nameAVip == <<"a", "_", "_", "v", "i", "p">>
srcA == [base |-> nameA, content |-> Flat(<<Param(kK, <<"1">>), ifVip>>)]
srcAVip == [base |-> nameAVip, content |-> Flat(<<Text(<<"y", "=">>), Param(<<"i", "d">>, <<"2">>)>>)]
\* a.sql whose if-block asks for the key its placeholder gives a default
srcDefaulted == [base |-> nameA, content |-> Flat(<<Param(kVip, <<"1">>), ifVip>>)]
Sources == {<<srcA>>, <<srcA, srcAVip>>, <<srcDefaulted>>}

\* the base test of one source file (src/main.go:1333-1360)
baseParamsStep(f, b, guess, fl) ==
    IF Path("params", b) \notin DOMAIN f \/ fl.overwrite
    THEN WriteFile(Ok(f), Path("params", b),
                   ParamsFile("Auto-generated from SQL placeholders", guess), fl.deny)
    ELSE Ok(f)
baseExpectedStep(r, b, text, fl) ==
    IF fl.autoExp
    THEN writeExpected(r, Path("expected", b), text, decodeFile(r.fs, Path("params", b)), fl.deny)
    ELSE writeStub(r, Path("expected", b), fl.deny)
baseDefStep(r, b, fl) == WriteFile(r, Path("out", b), TestDef(b, "auto sql"), fl.deny)
generateBase(f, src, fl) ==
    baseDefStep(
        baseExpectedStep(
            baseParamsStep(f, src.base, guessParamsFromSQL(src.content), fl),
            src.base, src.content, fl),
        src.base, fl)

\* the variant of one key (src/main.go:1380-1413)
variantParams(guess, key) ==
    [k \in DOMAIN guess \cup {key} |->
        IF k = key THEN sampleValueForKey(key)
        ELSE IF guess[k].t = "nil" THEN Str(<<>>)
        ELSE guess[k]]
variantExpectedStep(r, n, text, vp, fl) ==
    IF fl.autoExp
    THEN writeExpected(r, Path("expected", n), text, decodeWritten(vp), fl.deny)
    ELSE writeStub(r, Path("expected", n), fl.deny)
variantDefStep(r, n, fl) == WriteFile(r, Path("out", n), TestDef(n, "auto sql variant"), fl.deny)
variantSteps(f, n, text, vp, fl) ==
    variantDefStep(
        variantExpectedStep(
            WriteFile(Ok(f), Path("params", n),
                      ParamsFile("Auto-generated variant (truthy)", vp), fl.deny),
            n, text, vp, fl),
        n, fl)
generateVariant(f, src, key, n, fl) ==
    variantSteps(f, n, src.content, variantParams(guessParamsFromSQL(src.content), key), fl)

\* safeName: lower case, every run of other characters than a-z 0-9 _ - becomes
\* one _, and _ and - are trimmed from both ends; an empty name is "test"
IsSafe(c) == IsLower(c) \/ IsDigit(c) \/ c \in {"_", "-"}
RECURSIVE safeRuns(_, _)
safeRuns(s, inRun) ==
    IF Len(s) = 0 THEN <<>>
    ELSE IF IsSafe(Head(s)) THEN <<Head(s)>> \o safeRuns(Tail(s), FALSE)
    ELSE IF inRun THEN safeRuns(Tail(s), TRUE)
    ELSE <<"_">> \o safeRuns(Tail(s), TRUE)
RECURSIVE trimSafe(_)
trimSafe(s) ==
    IF Len(s) = 0 THEN s
    ELSE IF Head(s) \in {"_", "-"} THEN trimSafe(Tail(s))
    ELSE IF s[Len(s)] \in {"_", "-"} THEN trimSafe(SubSeq(s, 1, Len(s) - 1))
    ELSE s
safeNameOf(s) == IF Len(s) = 0 THEN <<"t", "e", "s", "t">> ELSE s
safeName(s) == safeNameOf(trimSafe(safeRuns(ToLower(s), FALSE)))

\* combineTests: the directory of the params files it writes is the _params
\* beside the combined file; with the combined file inside -out that is the
\* _params of gen-sql
combineParamsDir(where) == IF where = "inside" THEN "params" ELSE "combineParams"

\* the test definitions under -out, in sorted order of their paths
testFiles(f) == SortStrings({p.name : p \in {q \in DOMAIN f : q.dir = "out"}})

\* case map[string]any: the inline params of a definition become a params file
RECURSIVE combineInline(_, _, _, _)
combineInline(r, names, dir, deny) ==
    IF Len(names) = 0 \/ ~r.ok THEN r
    ELSE IF r.fs[Path("out", Head(names))].inline
    THEN combineInline(
            WriteFile(r, Path(dir, safeName(r.fs[Path("out", Head(names))].text)),
                      ParamsFile("Converted from inline params by combine",
                                 r.fs[Path("out", Head(names))].map), deny),
            Tail(names), dir, deny)
    ELSE combineInline(r, Tail(names), dir, deny)

combinedFile(f, names) ==
    Content("combined", "", FALSE, <<>>, [i \in DOMAIN names |-> f[Path("out", names[i])].text])
combineTests(f, fl) ==
    WriteFile(combineInline(Ok(f), testFiles(f), combineParamsDir(fl.combine), fl.deny),
              Path("combined", <<"t", "e", "s", "t", ".", "j", "s", "o", "n">>), combinedFile(f, testFiles(f)), fl.deny)

(***************************************************************************)
(* genSQLCmd as a state machine: parts are the source files, todo the      *)
(* files still to visit, keys the variant keys of the file at hand, log    *)
(* the lines printed, fs0 the files before the first run and first the     *)
(* files after it, once a second run has started.                          *)
(***************************************************************************)
Line(what, name) == [what |-> what, name |-> name]

GenFlags(overwrite, autoExp, where, deny) ==
    [overwrite |-> overwrite, autoExp |-> autoExp, combine |-> where, deny |-> deny]

\* after the work on one test: the next key, the next file, combine or the end
advance(ks) ==
    /\ keys' = ks
    /\ IF ks # <<>>
       THEN /\ pc' = "variants"
            /\ todo' = todo
       ELSE /\ todo' = Tail(todo)
            /\ pc' = IF Tail(todo) # <<>> THEN "file"
                     ELSE IF flags.combine # "" THEN "combine"
                     ELSE "finished"

generated(r, name, ks) ==
    /\ fs' = r.fs
    /\ IF r.ok
       THEN /\ log' = Append(log, Line("generated", name))
            /\ advance(ks)
       ELSE /\ pc' = "died"
            /\ UNCHANGED <<log, keys, todo>>

skipped(name, ks) ==
    /\ fs' = fs
    /\ log' = Append(log, Line("skip (exists)", name))
    /\ advance(ks)

\* if overwrite || fileNotExists(outPath)
baseWanted(f, b, overwrite) == overwrite \/ Path("out", b) \notin DOMAIN f

GenBase ==
    /\ pc = "file"
    /\ IF baseWanted(fs, Head(todo).base, flags.overwrite)
       THEN generated(generateBase(fs, Head(todo), flags), Head(todo).base,
                      findTruthyKeysForVariants(Head(todo).content))
       ELSE skipped(Head(todo).base, findTruthyKeysForVariants(Head(todo).content))
    /\ UNCHANGED <<parts, tpl, params, sqlText, stages, cmpA, cmpB, cmpRes,
                   flags, db, err, verdict, defs, first, fs0>>

variantName(b, key) == b \o <<"_", "_">> \o key

\* if !overwrite { if _, err := os.Stat(outPath2); err == nil { continue } }
variantOf(n, src, key) ==
    IF ~flags.overwrite /\ Path("out", n) \in DOMAIN fs
    THEN skipped(n, Tail(keys))
    ELSE generated(generateVariant(fs, src, key, n, flags), n, Tail(keys))

GenVariant ==
    /\ pc = "variants"
    /\ variantOf(variantName(Head(todo).base, Head(keys)), Head(todo), Head(keys))
    /\ UNCHANGED <<parts, tpl, params, sqlText, stages, cmpA, cmpB, cmpRes,
                   flags, db, err, verdict, defs, first, fs0>>

combined(r) ==
    /\ fs' = r.fs
    /\ pc' = IF r.ok THEN "finished" ELSE "died"

Combine ==
    /\ pc = "combine"
    /\ combined(combineTests(fs, flags))
    /\ UNCHANGED <<parts, tpl, params, sqlText, stages, cmpA, cmpB, cmpRes,
                   flags, db, err, verdict, log, defs, keys, first, fs0, todo>>

\* the same command once more, on the files the first run left
RunAgain ==
    /\ pc = "finished"
    /\ first = <<>>
    /\ first' = <<fs>>
    /\ todo' = parts
    /\ log' = <<>>
    /\ pc' = "file"
    /\ UNCHANGED <<parts, tpl, params, sqlText, stages, cmpA, cmpB, cmpRes,
                   flags, fs, db, err, verdict, defs, keys, fs0>>

\* the output directories before the run: any of the files of the two tests,
\* edited by hand; the definition of a may carry its params inline
GenPaths == {Path(d, n) : d \in {"out", "params", "expected"}, n \in {nameA, nameAVip}}
handMap == (kK :> Number(<<"7">>))
handFile(p, inline) ==
    CASE p.dir = "out" ->
            Content("def", "by hand", inline /\ p.name = nameA,
                    IF inline /\ p.name = nameA THEN handMap ELSE <<>>, p.name)
      [] p.dir = "params" -> ParamsFile("by hand", handMap)
      [] OTHER -> SqlFile(<<"h", "\n">>)
PriorFiles ==
    {[p \in S |-> handFile(p, inline)] : S \in SUBSET GenPaths, inline \in BOOLEAN}

StartGen(srcs, fl, files) ==
    /\ parts = srcs
    /\ todo = srcs
    /\ flags = fl
    /\ fs = files
    /\ fs0 = files
    /\ pc = "file"
    /\ params = NoParams
    /\ tpl = <<>>
    /\ sqlText = <<>>
    /\ stages = <<>>
    /\ cmpA = <<>>
    /\ cmpB = <<>>
    /\ cmpRes = FALSE
    /\ db = <<>>
    /\ err = NoError
    /\ verdict = ""
    /\ log = <<>>
    /\ IdleInfer
    /\ first = <<>>

InitGen ==
    \E srcs \in Sources, overwrite \in BOOLEAN, autoExp \in BOOLEAN,
       where \in {"", "inside", "outside"},
       deny \in {{}, {Path("params", nameAVip)}}, files \in PriorFiles :
        StartGen(srcs, GenFlags(overwrite, autoExp, where, deny), files)

NextGen == GenBase \/ GenVariant \/ Combine \/ RunAgain

SpecGen == InitGen /\ [][NextGen]_vars

(***************************************************************************)
(* C14: what a run of gen-sql without -overwrite leaves alone.             *)
(***************************************************************************)
\* the files before the run in progress
PriorFs == IF first = <<>> THEN fs0 ELSE first[1]

Same(p) ==
    /\ p \in DOMAIN PriorFs <=> p \in DOMAIN fs
    /\ p \in DOMAIN fs => fs[p] = PriorFs[p]

\* the tests the run has reported as skipped
Skipped == {log[i].name : i \in {j \in DOMAIN log : log[j].what = "skip (exists)"}}

\* C14: without -overwrite a run of gen-sql leaves every test definition that
\* existed before it as it was, leaves the params file and the expected file of
\* every test it skips as they were, and a second run changes no test
\* definition, params file or expected file.
C14_NoRewriteWithoutOverwrite ==
    ~flags.overwrite =>
        /\ \A p \in DOMAIN PriorFs : p.dir = "out" => Same(p)
        /\ \A n \in Skipped : Same(Path("params", n)) /\ Same(Path("expected", n))
        /\ first # <<>> =>
              \A p \in DOMAIN fs \cup DOMAIN PriorFs :
                  p.dir \in {"out", "params", "expected"} => Same(p)


(***************************************************************************)
(* evalCondFlexible on the two comparisons of one name with one literal,   *)
(* as the callback of step 2) calls it on the predicate of an if-block:    *)
(* tpl is `lhs == rhs`, sqlText is `lhs != rhs`, cmpA and cmpB are lhs and *)
(* rhs, first collects the two outcomes.                                   *)
(***************************************************************************)
EvalRhs ==
    { <<"n", "u", "l", "l">>, <<"T", "R", "U", "E">>, <<"f", "a", "l", "s", "e">>, <<"'", "x", "'">>, <<DQ, "x", DQ>>, <<"1">>, <<"1", ".", "0">>, <<"2">>, <<"1", ".", "5", "0">>,
      <<"-", "1">>, <<"'", "a", "=", "=", "b", "'">>, <<"'", "'">>, <<"'", "i", "t", "'", "'", "s", "'">>, <<"x">>, <<"'">> }

EvalValues ==
    { Nil, Bool(TRUE), Bool(FALSE), Str(<<"x">>), Str(<<>>), Str(<<"a", "=", "=", "b">>), Str(<<"i", "t", "'", "s">>),
      Str(<<"1">>), Number(<<"1">>), Number(<<"1", ".", "0">>), Number(<<"2">>), Number(<<"1", ".", "5">>),
      Number(<<"1", ".", "5", "0">>), Number(<<"-", "1">>), Number(<<"0">>) }

StartEval(lhs, rhs, sp, pm) ==
    /\ tpl = lhs \o sp \o <<"=", "=">> \o sp \o rhs
    /\ sqlText = lhs \o sp \o <<"!", "=">> \o sp \o rhs
    /\ cmpA = lhs
    /\ cmpB = rhs
    /\ params = pm
    /\ pc = "eq"
    /\ parts = <<>>
    /\ stages = <<>>
    /\ cmpRes = FALSE
    /\ Idle

InitEval ==
    \E rhs \in EvalRhs, sp \in {<<>>, <<" ">>}, pm \in Maps(kK, EvalValues) :
        StartEval(kK, rhs, sp, pm)

EvalEq ==
    /\ pc = "eq"
    /\ first' = <<evalCondFlexible(tpl, params)>>
    /\ pc' = "ne"
    /\ UNCHANGED <<parts, tpl, params, sqlText, stages, cmpA, cmpB, cmpRes,
                   flags, fs, db, err, verdict, log, defs, keys, fs0, todo>>

EvalNe ==
    /\ pc = "ne"
    /\ first' = Append(first, evalCondFlexible(sqlText, params))
    /\ pc' = "evaluated"
    /\ UNCHANGED <<parts, tpl, params, sqlText, stages, cmpA, cmpB, cmpRes,
                   flags, fs, db, err, verdict, log, defs, keys, fs0, todo>>

NextEval == EvalEq \/ EvalNe

SpecEval == InitEval /\ [][NextEval]_vars

(***************************************************************************)
(* C21: comparison of numbers by value.                                    *)
(***************************************************************************)
\* the number a decimal numeral spells: [neg, mant, exp] is -mant / 10^exp
DecimalDigits(u, dot) ==
    IF dot = 0 THEN [mant |-> DigitsValue(u), exp |-> 0]
    ELSE [mant |-> DigitsValue(SubSeq(u, 1, dot - 1) \o SubSeq(u, dot + 1, Len(u))),
          exp |-> Len(u) - dot]
DecimalOf(s) == DecimalDigits(Unsigned(s), IndexFrom(Unsigned(s), 1, <<".">>))
SameNumber(s, t) ==
    /\ DecimalOf(s).mant * Pow10(DecimalOf(t).exp) = DecimalOf(t).mant * Pow10(DecimalOf(s).exp)
    /\ DecimalOf(s).mant = 0 \/ IsNegative(s) = IsNegative(t)

\* the parameter is a number and the literal is an integer or a float
NumericCase ==
    /\ Len(first) >= 1
    /\ cmpA \in DOMAIN params
    /\ params[cmpA].t = "number"
    /\ ParseInt(cmpB).ok \/ ParseFloat(cmpB).ok

\* C21: for a numeric params[k] and a literal that parses as an integer or a
\* float, `k == rhs` is true exactly when the two spell the same number,
\* whether either is written as an integer or as a float.
C21_NumericByValue ==
    NumericCase =>
        /\ ~first[1].panic
        /\ first[1].val <=> SameNumber(params[cmpA].s, cmpB)

(***************************************************************************)
(* C22: != and ==.                                                         *)
(***************************************************************************)
\* C22: for every name, every literal that `==` accepts and every parameter
\* set, `lhs != rhs` is the negation of `lhs == rhs`.
C22_NotEqualNegates ==
    (pc = "evaluated" /\ rhsValue(cmpB).ok) =>
        /\ ~first[1].panic
        /\ ~first[2].panic
        /\ first[2].val <=> ~first[1].val


(***************************************************************************)
(* renderNyanSQL on one /*BEGIN*/ BODY /*END*/ span between two words: the  *)
(* body is put together from keywords, parentheses, white space, a word    *)
(* and a comment.                                                          *)
(***************************************************************************)
MaxBodyLen == 3

BodyPieces ==
    { <<"W", "H", "E", "R", "E">>, <<"a", "n", "d">>, <<"O", "R">>, <<"(">>, <<")">>, <<" ">>, <<"x">>, <<"/", "*", " ", "c", " ", "*", "/">> }

BodyCases ==
    {Case(<<Text(<<"s">>), Raw(mBEGIN), Piece("body", <<>>, <<>>, Concat(b), <<>>), Raw(mEND), Text(<<"t">>)>>,
          NoParams) : b \in SeqsUpTo(BodyPieces, MaxBodyLen)}

InitPrune == \E c \in BodyCases : Start(c)

SpecPrune == InitPrune /\ [][Next]_vars

(***************************************************************************)
(* C23: which spans step 3) drops.                                         *)
(***************************************************************************)
BodyShape == Len(parts) = 5 /\ parts[3].kind = "body"

\* the body without its comments, in upper case, as tokens
BodyTokens == SqlTokens(ToUpper(parts[3].b))

\* nothing, or an optional WHERE, an optional AND or OR, an optional ( )
EmptyBodies ==
    {w \o a \o p :
        w \in {<<>>, <<<<"W", "H", "E", "R", "E">>>>},
        a \in {<<>>, <<<<"A", "N", "D">>>>, <<<<"O", "R">>>>},
        p \in {<<>>, <<<<"(">>, <<")">>>>}}

\* C23: the span /*BEGIN*/ BODY /*END*/ becomes the empty string exactly when
\* BODY without its comments is empty or an optional WHERE, an optional single
\* AND or OR and an optional pair of empty parentheses; otherwise it becomes
\* BODY unchanged.
C23_PruneRule ==
    (BodyShape /\ Len(stages) >= 3) =>
        stages[3] = parts[1].b \o (IF BodyTokens \in EmptyBodies THEN <<>> ELSE parts[3].b)
                        \o parts[5].b


(***************************************************************************)
(* C24: the keys gen-sql makes variants for.                               *)
(***************************************************************************)
\* the keys a placeholder of the template gives a non-empty default
DefaultedKeys(text) ==
    {k \in DOMAIN extractParamDefaults(text) :
        extractParamDefaults(text)[k] \notin {Nil, Str(<<>>)}}

\* the tests gen-sql makes of one source: its base test and its variants
TestsOf(src) ==
    {src.base} \cup {variantName(src.base, findTruthyKeysForVariants(src.content)[i]) :
                        i \in DOMAIN findTruthyKeysForVariants(src.content)}

GeneratedNames == {log[i].name : i \in {j \in DOMAIN log : log[j].what = "generated"}}

\* the parameter sets the generator wrote for the tests it generated in this run
GeneratedParams(src) ==
    {fs[Path("params", n)].map :
        n \in {m \in GeneratedNames \cap TestsOf(src) :
                  /\ Path("params", m) \in DOMAIN fs
                  /\ fs[Path("params", m)].note \in
                        {"Auto-generated from SQL placeholders", "Auto-generated variant (truthy)"}}}

\* C24: no variant test is generated for a key that a placeholder of the
\* template gives a non-empty default, and every generated parameter set keeps
\* that default for the key.
C24_VariantOnlyWithoutDefault ==
    \A i \in DOMAIN parts : \A k \in DefaultedKeys(parts[i].content) :
        /\ variantName(parts[i].base, k) \notin GeneratedNames
        /\ \A m \in GeneratedParams(parts[i]) :
              k \in DOMAIN m /\ m[k] = extractParamDefaults(parts[i].content)[k]


(***************************************************************************)
(* C25: what a pass stands for.                                            *)
(***************************************************************************)
\* the rendered SQL was compared with the expected file and found equal
ComparedEqual == Reached("equalSQL") /\ equalSQL(fs0.expected.text, sqlText)

\* the expected file was written from the rendered SQL
ExpectedSaved ==
    /\ Reached("generate") \/ Reached("update")
    /\ fs.expected = File(addNewline(sqlText))

\* C25: a test is reported as passed only if, in that call of runOne, the
\* rendered SQL was compared with the expected file and found canonically equal,
\* or the expected file was written from the rendered SQL.
C25_PassImpliesCheck ==
    (pc = "reported" /\ verdict = ".") => (ComparedEqual \/ ExpectedSaved)


(***************************************************************************)
(* combineTests as a state machine, on test definitions written by hand:   *)
(* todo are the test files still to read, keys the keys given so far       *)
(* (nameUsed), defs the combined map, fs the files.  The combined file and *)
(* its _params directory are beside the definitions.                       *)
(***************************************************************************)
MaxTests == 2

\* for { if _, ok := nameUsed[key]; !ok { break }; key = base__i; i++ }
RECURSIVE uniqueKey(_, _, _, _)
uniqueKey(key, base, i, used) ==
    IF key \notin used THEN key
    ELSE uniqueKey(base \o <<"_", "_">> \o FormatNat(i), base, i + 1, used)

\* key := strings.TrimSpace(td.Name), or the file name without .test.jsonc
baseKey(td, file) == IF TrimSpace(td.text) = <<>> THEN file ELSE TrimSpace(td.text)

\* the entry of one test in the combined map: where its params are
Entry(file, paramsAt) == [file |-> file, params |-> paramsAt]
NoPath == Path("", <<>>)

\* the switch on td.Params: a path stays a path, inline params become the file
\* _params/<safeName(base)>.params.jsonc
paramsOf(td, base) ==
    IF td.inline THEN Path("params", safeName(base)) ELSE Path("given", base)

combineOne(file, td, base, r) ==
    /\ fs' = r.fs
    /\ IF r.ok
       THEN /\ defs' = [k \in DOMAIN defs \cup {uniqueKey(base, base, 2, DOMAIN defs)} |->
                           IF k \in DOMAIN defs THEN defs[k] ELSE Entry(file, paramsOf(td, base))]
            /\ keys' = Append(keys, uniqueKey(base, base, 2, DOMAIN defs))
            /\ todo' = Tail(todo)
            /\ UNCHANGED <<pc, err>>
       ELSE /\ return(Errorf(<<>>, <<"d", "e", "n", "i", "e", "d">>))
            /\ UNCHANGED <<defs, keys, todo>>

CombineNext ==
    /\ pc = "combining"
    /\ todo # <<>>
    /\ combineOne(Head(todo), fs[Path("out", Head(todo))],
                  baseKey(fs[Path("out", Head(todo))], Head(todo)),
                  IF fs[Path("out", Head(todo))].inline
                  THEN WriteFile(Ok(fs),
                                 Path("params", safeName(baseKey(fs[Path("out", Head(todo))], Head(todo)))),
                                 ParamsFile("Converted from inline params by combine",
                                            fs[Path("out", Head(todo))].map),
                                 flags.deny)
                  ELSE Ok(fs))
    /\ UNCHANGED <<parts, tpl, params, sqlText, stages, cmpA, cmpB, cmpRes,
                   flags, db, verdict, log, first, fs0>>

\* json.MarshalIndent(combined) and os.WriteFile(outFile)
CombineWrite ==
    /\ pc = "combining"
    /\ todo = <<>>
    /\ fs' = put(fs, Path("combined", <<"t", "e", "s", "t", ".", "j", "s", "o", "n">>),
                 Content("combined", "", FALSE, defs, keys))
    /\ pc' = "combined"
    /\ UNCHANGED <<parts, tpl, params, sqlText, stages, cmpA, cmpB, cmpRes,
                   flags, db, err, verdict, log, defs, keys, first, fs0, todo>>

\* the test definitions under -in: t1.test.jsonc, t2.test.jsonc, ... with a
\* name and with params inline or as a path
TestFileNames == <<<<"t", "1">>, <<"t", "2">>, <<"t", "3">>>>
TestNames == { <<"a">>, <<"A">>, <<"a", ".", "b">>, <<"a", " ", "b">>, <<>>, <<"a", "_", "_", "2">> }
inlineOne == (kK :> Number(<<"1">>))
inlineTwo == (kK :> Number(<<"2">>))
HandDefs ==
    {Content("def", "by hand", TRUE, m, n) : m \in {inlineOne, inlineTwo}, n \in TestNames}
    \cup {Content("def", "by hand", FALSE, <<>>, n) : n \in TestNames}

StartCombine(files, deny) ==
    /\ fs = files
    /\ fs0 = files
    /\ todo = testFiles(files)
    /\ flags = [deny |-> deny]
    /\ pc = "combining"
    /\ keys = <<>>
    /\ defs = <<>>
    /\ parts = <<>>
    /\ params = NoParams
    /\ tpl = <<>>
    /\ sqlText = <<>>
    /\ stages = <<>>
    /\ cmpA = <<>>
    /\ cmpB = <<>>
    /\ cmpRes = FALSE
    /\ db = <<>>
    /\ err = NoError
    /\ verdict = ""
    /\ log = <<>>
    /\ first = <<>>

InitCombine ==
    \E n \in 1..MaxTests, deny \in {{}, {Path("params", <<"a", "_", "b">>)}} :
        \E tds \in [1..n -> HandDefs] :
            StartCombine([p \in {Path("out", TestFileNames[i]) : i \in 1..n} |->
                             tds[CHOOSE i \in 1..n : TestFileNames[i] = p.name]], deny)

NextCombine == CombineNext \/ CombineWrite

SpecCombine == InitCombine /\ [][NextCombine]_vars

(***************************************************************************)
(* C26: combine and the parameters of each test.                           *)
(***************************************************************************)
\* the tests that had inline params
InlineTests == {p.name : p \in {q \in DOMAIN fs0 : q.dir = "out" /\ fs0[q].inline}}

\* C26: after combineTests every test definition has its own key in the
\* combined file, and every test that had inline params points to a params file
\* that holds its own inline params.
C26_OwnParams ==
    pc = "combined" =>
        /\ Len(keys) = Cardinality({p \in DOMAIN fs0 : p.dir = "out"})
        /\ Cardinality(DOMAIN defs) = Len(keys)
        /\ \A k \in DOMAIN defs :
              defs[k].file \in InlineTests =>
                  /\ defs[k].params \in DOMAIN fs
                  /\ fs[defs[k].params].map = fs0[Path("out", defs[k].file)].map

====
